---- MODULE Spec2Model ----
(***************************************************************************)
(* web3-error-helper: the custom chain registry, the translation cache and *)
(* the translateError pipeline (adapter extraction, mapping assembly,      *)
(* pattern matching, fallback resolution, i18n lookup).                    *)
(*                                                                         *)
(* A JavaScript string is a sequence of symbols.  Error messages, patterns *)
(* and keywords are spelled character by character, so that toLowerCase,   *)
(* includes and === are computed on them.  Texts that the library only     *)
(* passes along (mapping messages, fallback texts, dictionary entries) are *)
(* one opaque symbol each.                                                 *)
(***************************************************************************)
EXTENDS Naturals, Integers, Sequences, FiniteSets, TLC

\* the registry changes remembered between two translateError calls
MaxMuts == 1

\* TranslationCache.maxSize and ttl, scaled: the cache holds maxSize entries,
\* and an entry is served until it is more than ttl clock ticks old
maxSize == 2
ttl == 1

\* the clock stops at MaxTime, the translateError calls at MaxCalls
MaxTime == 2
MaxCalls == 3

\* the translateError calls where every kind of call is made, and where the
\* caller's mappings are given
MaxCallsWide == 1
MaxCallsOverride == 2

\* the translateError calls where the original error is asked for
MaxCallsOriginal == 2

\* the most words a message given to detectErrorType has
MaxWords == 2

\* the calls of translateError made while an adapter throws
MaxCallsThrow == 2

\* the longest list of mappings findBestMatch is given
MaxMappings == 2

\* the translateError calls made while the current language changes
MaxCallsLanguage == 2

\* the translateError calls made on a chain whose mappings tie with the
\* built-in ones
MaxCallsPriority == 2

\* the translateError calls made with and without customLocales
MaxCallsFrame == 2

\* the translateError calls made to fill the cache
MaxCallsEvict == 3

VARIABLES chains, cache, clock, i18n, adapterRegistry, loadedLanguages, calls, last, prev

vars == <<chains, cache, clock, i18n, adapterRegistry, loadedLanguages, calls, last, prev>>

----------------------------------------------------------------------------
(* JavaScript values *)

JUndef == [t |-> "undefined"]
JNull == [t |-> "null"]
JStr(s) == [t |-> "string", s |-> s]
JNum(n) == [t |-> "number", n |-> n]
JBool(b) == [t |-> "boolean", b |-> b]
JObj(f) == [t |-> "object", f |-> f]
JArr(a) == [t |-> "array", a |-> a]

\* typeof v
typeof(v) == IF v.t \in {"null", "array"} THEN "object" ELSE v.t

\* ToBoolean(v), as in if (v), !v, v || w, v && w
Truthy(v) ==
  CASE v.t = "undefined" -> FALSE
    [] v.t = "null" -> FALSE
    [] v.t = "string" -> v.s # <<>>
    [] v.t = "number" -> v.n # 0
    [] v.t = "boolean" -> v.b
    [] OTHER -> TRUE

\* an Error instance: an object with its own message and stack
JError(m) == JObj([message |-> JStr(m), stack |-> JStr(<<"Error: at <anonymous>">>)])

\* key in obj
HasProp(v, k) == v.t = "object" /\ k \in DOMAIN v.f

\* obj[k], for an object or a primitive that has no such property
Get(v, k) == IF HasProp(v, k) THEN v.f[k] ELSE JUndef

\* a || b
Or(a, b) == IF Truthy(a) THEN a ELSE b

\* a ?? b
Nullish(a, b) == IF a.t \in {"undefined", "null"} THEN b ELSE a

\* a destructured property with a default: only undefined takes it
Default(a, b) == IF a = JUndef THEN b ELSE a

\* an opaque text: one symbol
T(x) == <<x>>

\* Array.prototype.find, and every loop that returns at its first hit: the
\* first element of s that satisfies P, or none
Find(s, P(_), none) ==
  IF \E i \in 1..Len(s) : P(s[i])
  THEN s[CHOOSE i \in 1..Len(s) : P(s[i]) /\ \A j \in 1..(i - 1) : ~P(s[j])]
  ELSE none

\* the value a Map, kept as entries, has for key, or undefined
MapGet(entries, key) ==
  Find(entries, LAMBDA entry : entry.key = key, [value |-> JUndef]).value

\* Map.set: a present key keeps its place
MapSet(entries, key, value) ==
  IF \E i \in 1..Len(entries) : entries[i].key = key
  THEN [i \in 1..Len(entries) |->
          IF entries[i].key = key THEN [key |-> key, value |-> value] ELSE entries[i]]
  ELSE Append(entries, [key |-> key, value |-> value])

\* Map.delete: the other entries keep their order
MapDelete(entries, key) == SelectSeq(entries, LAMBDA entry : entry.key # key)

\* Map.values()
MapValues(entries) == [i \in 1..Len(entries) |-> entries[i].value]

\* the symbols toLowerCase changes: the letters, and the names of the error
\* types, which are one symbol each
UpperChars == <<"WALLET", "CONTRACT", "GAS", "TRANSACTION", "NETWORK", "A", "B", "C", "D", "E", "F", "G", "H", "I", "J", "K", "L", "M", "N", "O", "P", "Q", "R", "S", "T", "U", "V", "W", "X", "Y", "Z">>
LowerChars == <<"wallet", "contract", "gas", "transaction", "network", "a", "b", "c", "d", "e", "f", "g", "h", "i", "j", "k", "l", "m", "n", "o", "p", "q", "r", "s", "t", "u", "v", "w", "x", "y", "z">>

\* the lower case of each symbol that has one
LowerMap ==
  [u \in {UpperChars[k] : k \in 1..Len(LowerChars)} |->
     LowerChars[CHOOSE k \in 1..Len(LowerChars) : UpperChars[k] = u]]

\* String.prototype.toLowerCase
lowerOf(c, map) == IF c \in DOMAIN map THEN map[c] ELSE c

toLowerCase(s) == [i \in 1..Len(s) |-> lowerOf(s[i], LowerMap)]

\* String.prototype.includes
includes(s, sub) ==
  \E i \in 0..(Len(s) - Len(sub)) : SubSeq(s, i + 1, i + Len(sub)) = sub

\* the strings used as error messages and patterns
S_empty == <<>>
S_network_error == <<"n", "e", "t", "w", "o", "r", "k", " ", "e", "r", "r", "o", "r">>
S_wallet_issue == <<"w", "a", "l", "l", "e", "t", " ", "i", "s", "s", "u", "e">>
S_contract_failed == <<"c", "o", "n", "t", "r", "a", "c", "t", " ", "f", "a", "i", "l", "e", "d">>
S_out_of_gas == <<"o", "u", "t", " ", "o", "f", " ", "g", "a", "s">>
S_custom_error == <<"c", "u", "s", "t", "o", "m", " ", "e", "r", "r", "o", "r">>
S_Custom_Error == <<"C", "u", "s", "t", "o", "m", " ", "E", "r", "r", "o", "r">>
S_Unknown_error_occurred == <<"U", "n", "k", "n", "o", "w", "n", " ", "e", "r", "r", "o", "r", " ", "o", "c", "c", "u", "r", "r", "e", "d">>
S_gas_open == <<"g", "a", "s", "(">>
S_out_of_gas_open == <<"o", "u", "t", " ", "o", "f", " ", "g", "a", "s", "(">>
S_gas == <<"g", "a", "s">>


----------------------------------------------------------------------------
(* Custom chain registry: chains is the Map<string, CustomChainConfig>, in *)
(* insertion order, each entry [key, value].                               *)

\* an ErrorMapping; an absent optional field is undefined
Mapping(pattern, message, isRegex, priority) ==
  [pattern |-> pattern, message |-> message, isRegex |-> isRegex, priority |-> priority]

\* a CustomChainConfig; an absent customFallbacks is undefined
Config(chainId, name, errorMappings, customFallbacks) ==
  [chainId |-> chainId, name |-> name, errorMappings |-> errorMappings,
   customFallbacks |-> customFallbacks]

NoThrow == "none"

\* CustomChainRegistry.has
has(chainId) == \E i \in 1..Len(chains) : chains[i].key = chainId

\* CustomChainRegistry.get: the config, or undefined
get(chainId) ==
  Find(chains, LAMBDA entry : entry.key = chainId, [value |-> JUndef]).value

\* CustomChainRegistry.getAll
getAll == [i \in 1..Len(chains) |-> chains[i].value]

\* CustomChainRegistry.getErrorMappings: config?.errorMappings || []
getErrorMappings(chainId) ==
  Find(chains, LAMBDA entry : entry.key = chainId,
       [value |-> [errorMappings |-> JArr(<<>>)]]).value.errorMappings.a

\* CustomChainRegistry.getCustomFallbacks: config?.customFallbacks
getCustomFallbacks(chainId) ==
  Find(chains, LAMBDA entry : entry.key = chainId,
       [value |-> [customFallbacks |-> JUndef]]).value.customFallbacks

\* a validation of errorMappings[i] that stops after the pattern
validateMappingPatternOnly(mapping) ==
  IF ~Truthy(mapping.pattern) \/ typeof(mapping.pattern) # "string"
  THEN "errorMappings[i].pattern must be a non-empty string"
  ELSE NoThrow

\* the check validateConfig makes of errorMappings[i]: the Error, or NoThrow
validateMapping(mapping) ==
  IF ~Truthy(mapping.pattern) \/ typeof(mapping.pattern) # "string"
  THEN "errorMappings[i].pattern must be a non-empty string"
  ELSE IF ~Truthy(mapping.message) \/ typeof(mapping.message) # "string"
  THEN "errorMappings[i].message must be a non-empty string"
  ELSE NoThrow

\* CustomChainRegistry.validateConfig: the Error it throws, or NoThrow
validateConfig(config) ==
  IF ~Truthy(config.chainId) \/ typeof(config.chainId) # "string"
  THEN "chainId must be a non-empty string"
  ELSE IF ~Truthy(config.name) \/ typeof(config.name) # "string"
  THEN "name must be a non-empty string"
  ELSE IF config.errorMappings.t # "array"
  THEN "errorMappings must be an array"
  ELSE Find([i \in 1..Len(config.errorMappings.a) |->
               validateMapping(config.errorMappings.a[i])],
            LAMBDA e : e # NoThrow, NoThrow)

\* CustomChainRegistry.register: the Error it throws, or NoThrow
registerThrows(config) ==
  IF has(config.chainId)
  THEN "Chain is already registered"
  ELSE validateConfig(config)

\* a register that stores the config before it checks it
registerBeforeCheck(config) ==
  Append(chains, [key |-> config.chainId, value |-> config])

\* CustomChainRegistry.register: the Map after the call
register(config) ==
  IF registerThrows(config) # NoThrow
  THEN chains
  ELSE Append(chains, [key |-> config.chainId, value |-> config])

\* an unregister that deletes the oldest entry, whatever its key
unregisterOldest(chainId) ==
  IF has(chainId) THEN Tail(chains) ELSE chains

\* CustomChainRegistry.unregister: Map.delete keeps the order of the rest
unregister(chainId) ==
  IF has(chainId)
  THEN LET i == CHOOSE j \in 1..Len(chains) : chains[j].key = chainId
       IN SubSeq(chains, 1, i - 1) \o SubSeq(chains, i + 1, Len(chains))
  ELSE chains

\* CustomChainRegistry.clear
clear == <<>>

----------------------------------------------------------------------------
(* Chain adapters.  An adapter is its ecosystem name, the substrings and   *)
(* the properties matchesErrorFormat looks for, and the steps its          *)
(* extractErrorMessage tries on an object, in order.  A step reads the     *)
(* value at path (every object on the way must be a non-null object; array *)
(* says the first one must be an array), needs the guard property to be    *)
(* truthy when it names one, and returns text followed by the value when   *)
(* the value is what it wants.                                             *)

\* class SolanaAdapter
SolanaAdapter ==
  [ecosystem |-> "solana",
   hints |-> <<
     <<"i", "n", "s", "u", "f", "f", "i", "c", "i", "e", "n", "t", " ", "f", "u", "n", "d", "s">>,
     <<"a", "c", "c", "o", "u", "n", "t", " ", "n", "o", "t", " ", "f", "o", "u", "n", "d">>,
     <<"p", "r", "o", "g", "r", "a", "m", " ", "e", "r", "r", "o", "r">>,
     <<"i", "n", "s", "t", "r", "u", "c", "t", "i", "o", "n", " ", "e", "r", "r", "o", "r">>,
     <<"b", "l", "o", "c", "k", "h", "a", "s", "h", " ", "n", "o", "t", " ", "f", "o", "u", "n", "d">>,
     <<"s", "i", "g", "n", "a", "t", "u", "r", "e", " ", "v", "e", "r", "i", "f", "i", "c", "a", "t", "i", "o", "n", " ", "f", "a", "i", "l", "e", "d">>
   >>,
   props |-> <<"InstructionError", "ProgramError", "slot", "blockhash", "signature">>,
   steps |-> <<
     [guard |-> "", path |-> <<"data", "err", "message">>, array |-> FALSE, want |-> "string", text |-> <<>>],
     [guard |-> "", path |-> <<"message">>, array |-> FALSE, want |-> "string", text |-> <<>>],
     [guard |-> "", path |-> <<"error", "message">>, array |-> FALSE, want |-> "string", text |-> <<>>],
     [guard |-> "", path |-> <<"InstructionError", "1", "Custom">>, array |-> TRUE, want |-> "number", text |-> <<"P", "r", "o", "g", "r", "a", "m", " ", "e", "r", "r", "o", "r", ":", " ">>]
   >>]

\* class CosmosAdapter
CosmosAdapter ==
  [ecosystem |-> "cosmos",
   hints |-> <<
     <<"i", "n", "s", "u", "f", "f", "i", "c", "i", "e", "n", "t", " ", "f", "u", "n", "d", "s">>,
     <<"a", "c", "c", "o", "u", "n", "t", " ", "s", "e", "q", "u", "e", "n", "c", "e", " ", "m", "i", "s", "m", "a", "t", "c", "h">>,
     <<"s", "i", "g", "n", "a", "t", "u", "r", "e", " ", "v", "e", "r", "i", "f", "i", "c", "a", "t", "i", "o", "n", " ", "f", "a", "i", "l", "e", "d">>,
     <<"i", "n", "v", "a", "l", "i", "d", " ", "s", "e", "q", "u", "e", "n", "c", "e">>,
     <<"o", "u", "t", " ", "o", "f", " ", "g", "a", "s">>,
     <<"A", "B", "C", "I">>,
     <<"c", "o", "s", "m", "o", "s">>
   >>,
   props |-> <<"code", "tx_response", "raw_log", "type", "module">>,
   steps |-> <<
     [guard |-> "code", path |-> <<"message">>, array |-> FALSE, want |-> "string", text |-> <<>>],
     [guard |-> "", path |-> <<"tx_response", "raw_log">>, array |-> FALSE, want |-> "string", text |-> <<>>],
     [guard |-> "", path |-> <<"error", "message">>, array |-> FALSE, want |-> "string", text |-> <<>>],
     [guard |-> "type", path |-> <<"message">>, array |-> FALSE, want |-> "string", text |-> <<>>]
   >>]

\* class NearAdapter
NearAdapter ==
  [ecosystem |-> "near",
   hints |-> <<
     <<"i", "n", "s", "u", "f", "f", "i", "c", "i", "e", "n", "t", " ", "b", "a", "l", "a", "n", "c", "e">>,
     <<"a", "c", "c", "o", "u", "n", "t", " ", "d", "o", "e", "s", " ", "n", "o", "t", " ", "e", "x", "i", "s", "t">>,
     <<"a", "c", "c", "e", "s", "s", " ", "k", "e", "y">>,
     <<"f", "u", "n", "c", "t", "i", "o", "n", " ", "c", "a", "l", "l">>,
     <<"e", "x", "e", "c", "u", "t", "i", "o", "n", " ", "e", "r", "r", "o", "r">>,
     <<"n", "e", "a", "r">>,
     <<"N", "E", "A", "R">>
   >>,
   props |-> <<"Failure", "AccountDoesNotExist", "AccessKeyDoesNotExist", "FunctionCallError", "ExecutionError">>,
   steps |-> <<
     [guard |-> "", path |-> <<"message">>, array |-> FALSE, want |-> "nonempty", text |-> <<>>],
     [guard |-> "", path |-> <<"error", "message">>, array |-> FALSE, want |-> "string", text |-> <<>>],
     [guard |-> "", path |-> <<"Failure", "ActionError", "kind", "FunctionCallError", "ExecutionError">>, array |-> FALSE, want |-> "string", text |-> <<>>],
     [guard |-> "", path |-> <<"AccountDoesNotExist">>, array |-> FALSE, want |-> "truthy", text |-> <<"A", "c", "c", "o", "u", "n", "t", " ", "d", "o", "e", "s", " ", "n", "o", "t", " ", "e", "x", "i", "s", "t", " ", "o", "n", " ", "N", "e", "a", "r", " ", "P", "r", "o", "t", "o", "c", "o", "l">>],
     [guard |-> "", path |-> <<"AccessKeyDoesNotExist">>, array |-> FALSE, want |-> "truthy", text |-> <<"A", "c", "c", "e", "s", "s", " ", "k", "e", "y", " ", "d", "o", "e", "s", " ", "n", "o", "t", " ", "e", "x", "i", "s", "t", " ", "f", "o", "r", " ", "t", "h", "i", "s", " ", "a", "c", "c", "o", "u", "n", "t">>]
   >>]

\* class CardanoAdapter
CardanoAdapter ==
  [ecosystem |-> "cardano",
   hints |-> <<
     <<"i", "n", "s", "u", "f", "f", "i", "c", "i", "e", "n", "t", " ", "a", "d", "a">>,
     <<"s", "c", "r", "i", "p", "t", " ", "e", "x", "e", "c", "u", "t", "i", "o", "n", " ", "f", "a", "i", "l", "e", "d">>,
     <<"d", "a", "t", "u", "m", " ", "h", "a", "s", "h", " ", "m", "i", "s", "m", "a", "t", "c", "h">>,
     <<"p", "l", "u", "t", "u", "s">>,
     <<"c", "a", "r", "d", "a", "n", "o">>,
     <<"u", "t", "x", "o">>
   >>,
   props |-> <<"ScriptFailure", "ValidationError", "PlutusFailure", "EvaluationError", "utxo">>,
   steps |-> <<
     [guard |-> "", path |-> <<"message">>, array |-> FALSE, want |-> "string", text |-> <<>>],
     [guard |-> "", path |-> <<"error", "message">>, array |-> FALSE, want |-> "string", text |-> <<>>],
     [guard |-> "", path |-> <<"ScriptFailure", "PlutusFailure", "EvaluationError">>, array |-> FALSE, want |-> "string", text |-> <<>>],
     [guard |-> "", path |-> <<"ValidationError">>, array |-> FALSE, want |-> "nonempty", text |-> <<>>]
   >>]

\* class PolkadotAdapter
PolkadotAdapter ==
  [ecosystem |-> "polkadot",
   hints |-> <<
     <<"i", "n", "s", "u", "f", "f", "i", "c", "i", "e", "n", "t", " ", "b", "a", "l", "a", "n", "c", "e">>,
     <<"e", "x", "t", "r", "i", "n", "s", "i", "c", " ", "f", "a", "i", "l", "e", "d">>,
     <<"b", "a", "d", " ", "o", "r", "i", "g", "i", "n">>,
     <<"s", "u", "b", "s", "t", "r", "a", "t", "e">>,
     <<"p", "o", "l", "k", "a", "d", "o", "t">>,
     <<"p", "a", "r", "a", "c", "h", "a", "i", "n">>
   >>,
   props |-> <<"ExtrinsicFailed", "DispatchError", "BalanceTooLow", "ExistenceRequired", "Module">>,
   steps |-> <<
     [guard |-> "", path |-> <<"message">>, array |-> FALSE, want |-> "string", text |-> <<>>],
     [guard |-> "", path |-> <<"error", "message">>, array |-> FALSE, want |-> "string", text |-> <<>>],
     [guard |-> "", path |-> <<"ExtrinsicFailed", "DispatchError", "BadOrigin">>, array |-> FALSE, want |-> "string", text |-> <<"B", "a", "d", " ", "o", "r", "i", "g", "i", "n", ":", " ">>],
     [guard |-> "", path |-> <<"ExtrinsicFailed", "DispatchError", "Module", "error">>, array |-> FALSE, want |-> "string", text |-> <<"M", "o", "d", "u", "l", "e", " ", "e", "r", "r", "o", "r", ":", " ">>],
     [guard |-> "", path |-> <<"BalanceTooLow">>, array |-> FALSE, want |-> "truthy", text |-> <<"I", "n", "s", "u", "f", "f", "i", "c", "i", "e", "n", "t", " ", "b", "a", "l", "a", "n", "c", "e", " ", "f", "o", "r", " ", "t", "r", "a", "n", "s", "a", "c", "t", "i", "o", "n">>],
     [guard |-> "", path |-> <<"ExistenceRequired">>, array |-> FALSE, want |-> "truthy", text |-> <<"A", "c", "c", "o", "u", "n", "t", " ", "e", "x", "i", "s", "t", "e", "n", "c", "e", " ", "r", "e", "q", "u", "i", "r", "e", "d">>]
   >>]

\* class AlgorandAdapter
AlgorandAdapter ==
  [ecosystem |-> "algorand",
   hints |-> <<
     <<"i", "n", "s", "u", "f", "f", "i", "c", "i", "e", "n", "t", " ", "b", "a", "l", "a", "n", "c", "e">>,
     <<"l", "o", "g", "i", "c", " ", "e", "r", "r", "o", "r">>,
     <<"i", "n", "v", "a", "l", "i", "d", " ", "s", "i", "g", "n", "a", "t", "u", "r", "e">>,
     <<"a", "l", "g", "o", "r", "a", "n", "d">>,
     <<"t", "e", "a", "l">>,
     <<"a", "s", "a">>
   >>,
   props |-> <<"logic_error", "validation_error", "network_error", "asa", "teal">>,
   steps |-> <<
     [guard |-> "", path |-> <<"message">>, array |-> FALSE, want |-> "string", text |-> <<>>],
     [guard |-> "", path |-> <<"error", "message">>, array |-> FALSE, want |-> "string", text |-> <<>>],
     [guard |-> "", path |-> <<"logic_error", "message">>, array |-> FALSE, want |-> "string", text |-> <<>>],
     [guard |-> "", path |-> <<"validation_error">>, array |-> FALSE, want |-> "nonempty", text |-> <<>>],
     [guard |-> "", path |-> <<"network_error">>, array |-> FALSE, want |-> "nonempty", text |-> <<>>]
   >>]

\* class TezosAdapter
TezosAdapter ==
  [ecosystem |-> "tezos",
   hints |-> <<
     <<"i", "n", "s", "u", "f", "f", "i", "c", "i", "e", "n", "t", " ", "b", "a", "l", "a", "n", "c", "e">>,
     <<"s", "c", "r", "i", "p", "t", " ", "f", "a", "i", "l", "e", "d">>,
     <<"i", "n", "v", "a", "l", "i", "d", " ", "o", "p", "e", "r", "a", "t", "i", "o", "n">>,
     <<"t", "e", "z", "o", "s">>,
     <<"m", "i", "c", "h", "e", "l", "s", "o", "n">>,
     <<"x", "t", "z">>
   >>,
   props |-> <<"michelson_error", "validation_error", "network_error", "operation", "xtz">>,
   steps |-> <<
     [guard |-> "", path |-> <<"message">>, array |-> FALSE, want |-> "string", text |-> <<>>],
     [guard |-> "", path |-> <<"error", "message">>, array |-> FALSE, want |-> "string", text |-> <<>>],
     [guard |-> "", path |-> <<"michelson_error", "message">>, array |-> FALSE, want |-> "string", text |-> <<>>],
     [guard |-> "", path |-> <<"validation_error">>, array |-> FALSE, want |-> "nonempty", text |-> <<>>],
     [guard |-> "", path |-> <<"network_error">>, array |-> FALSE, want |-> "nonempty", text |-> <<>>]
   >>]

\* class StellarAdapter
StellarAdapter ==
  [ecosystem |-> "stellar",
   hints |-> <<
     <<"i", "n", "s", "u", "f", "f", "i", "c", "i", "e", "n", "t", " ", "b", "a", "l", "a", "n", "c", "e">>,
     <<"o", "p", "e", "r", "a", "t", "i", "o", "n", " ", "f", "a", "i", "l", "e", "d">>,
     <<"s", "t", "e", "l", "l", "a", "r">>,
     <<"h", "o", "r", "i", "z", "o", "n">>,
     <<"x", "l", "m">>,
     <<"t", "r", "u", "s", "t", "l", "i", "n", "e">>
   >>,
   props |-> <<"operation_error", "horizon_error", "stellar", "xlm", "trustline">>,
   steps |-> <<
     [guard |-> "", path |-> <<"message">>, array |-> FALSE, want |-> "string", text |-> <<>>],
     [guard |-> "", path |-> <<"error", "message">>, array |-> FALSE, want |-> "string", text |-> <<>>],
     [guard |-> "", path |-> <<"operation_error", "code">>, array |-> FALSE, want |-> "string", text |-> <<"O", "p", "e", "r", "a", "t", "i", "o", "n", " ", "e", "r", "r", "o", "r", ":", " ">>],
     [guard |-> "", path |-> <<"result", "result">>, array |-> FALSE, want |-> "string", text |-> <<>>],
     [guard |-> "", path |-> <<"horizon_error">>, array |-> FALSE, want |-> "nonempty", text |-> <<>>]
   >>]

\* class RippleAdapter
RippleAdapter ==
  [ecosystem |-> "ripple",
   hints |-> <<
     <<"i", "n", "s", "u", "f", "f", "i", "c", "i", "e", "n", "t", " ", "f", "u", "n", "d", "s">>,
     <<"r", "i", "p", "p", "l", "e">>,
     <<"x", "r", "p">>,
     <<"l", "e", "d", "g", "e", "r">>,
     <<"p", "a", "y", "m", "e", "n", "t">>,
     <<"t", "r", "u", "s", "t", "l", "i", "n", "e">>
   >>,
   props |-> <<"transaction_result", "ledger_error", "ripple", "xrp", "payment">>,
   steps |-> <<
     [guard |-> "", path |-> <<"message">>, array |-> FALSE, want |-> "string", text |-> <<>>],
     [guard |-> "", path |-> <<"error", "message">>, array |-> FALSE, want |-> "string", text |-> <<>>],
     [guard |-> "", path |-> <<"result", "error">>, array |-> FALSE, want |-> "string", text |-> <<>>],
     [guard |-> "", path |-> <<"result", "error_message">>, array |-> FALSE, want |-> "string", text |-> <<>>],
     [guard |-> "", path |-> <<"transaction_result", "result">>, array |-> FALSE, want |-> "string", text |-> <<"T", "r", "a", "n", "s", "a", "c", "t", "i", "o", "n", " ", "r", "e", "s", "u", "l", "t", ":", " ">>],
     [guard |-> "", path |-> <<"ledger_error">>, array |-> FALSE, want |-> "nonempty", text |-> <<>>]
   >>]

\* class EVMAdapter
EVMAdapter ==
  [ecosystem |-> "evm",
   hints |-> <<
     <<"e", "x", "e", "c", "u", "t", "i", "o", "n", " ", "r", "e", "v", "e", "r", "t", "e", "d">>,
     <<"g", "a", "s", " ", "r", "e", "q", "u", "i", "r", "e", "d", " ", "e", "x", "c", "e", "e", "d", "s", " ", "a", "l", "l", "o", "w", "a", "n", "c", "e">>,
     <<"n", "o", "n", "c", "e", " ", "t", "o", "o", " ", "l", "o", "w">>,
     <<"r", "e", "v", "e", "r", "t">>,
     <<"o", "u", "t", " ", "o", "f", " ", "g", "a", "s">>,
     <<"g", "a", "s", " ", "l", "i", "m", "i", "t">>
   >>,
   props |-> <<"code", "data", "transaction", "receipt">>,
   steps |-> <<
     [guard |-> "", path |-> <<"message">>, array |-> FALSE, want |-> "string", text |-> <<>>],
     [guard |-> "", path |-> <<"reason">>, array |-> FALSE, want |-> "string", text |-> <<>>],
     [guard |-> "", path |-> <<"data">>, array |-> FALSE, want |-> "string", text |-> <<>>],
     [guard |-> "code", path |-> <<"message">>, array |-> FALSE, want |-> "string", text |-> <<>>],
     [guard |-> "", path |-> <<"error", "message">>, array |-> FALSE, want |-> "string", text |-> <<>>]
   >>]

\* v && typeof v === 'object'
IsObject(v) == v.t \in {"object", "array"}

\* v[k], also for the elements of an array
Prop(v, k) ==
  IF v.t = "array"
  THEN IF k = "0" /\ Len(v.a) >= 1 THEN v.a[1]
       ELSE IF k = "1" /\ Len(v.a) >= 2 THEN v.a[2]
       ELSE JUndef
  ELSE Get(v, k)

\* the value a step's guards let it read, undefined when one of them fails
RECURSIVE Walk(_, _)
Walk(v, path) ==
  IF path = <<>> THEN v
  ELSE IF ~IsObject(v) THEN JUndef
  ELSE Walk(Prop(v, Head(path)), Tail(path))

DigitChars == <<"0", "1", "2", "3", "4", "5", "6", "7", "8", "9">>

\* `${n}` for a natural number
RECURSIVE NumberToString(_)
NumberToString(n) ==
  IF n < 10 THEN <<DigitChars[n + 1]>>
  ELSE NumberToString(n \div 10) \o <<DigitChars[(n % 10) + 1]>>

\* whether a step that read value returns
Wanted(step, value) ==
  CASE step.want = "string" -> value.t = "string"
    [] step.want = "nonempty" -> value.t = "string" /\ value.s # <<>>
    [] step.want = "number" -> value.t = "number"
    [] OTHER -> Truthy(value)

\* whether the step returns
StepApplies(error, step) ==
  /\ step.guard = "" \/ Truthy(Get(error, step.guard))
  /\ ~step.array \/ Get(error, Head(step.path)).t = "array"
  /\ Wanted(step, Walk(error, step.path))

\* what a step that read value returns
Returned(step, value) ==
  CASE step.want \in {"string", "nonempty"} -> step.text \o value.s
    [] step.want = "number" -> step.text \o NumberToString(value.n)
    [] OTHER -> step.text

\* what the step returns
StepResult(error, step) == Returned(step, Walk(error, step.path))

\* an extractMessageFromError that returns '' for what is not an object
extractMessageOrEmpty(error) ==
  IF error.t = "string" THEN error.s
  ELSE IF IsObject(error)
  THEN Find(<<Get(error, "message"), Get(error, "error"), Get(error, "reason"),
              Get(error, "details")>>,
            LAMBDA v : v.t = "string", JStr(S_Unknown_error_occurred)).s
  ELSE S_empty

\* BaseChainAdapter.extractMessageFromError
extractMessageFromError(error) ==
  IF error.t = "string" THEN error.s
  ELSE IF IsObject(error)
  THEN Find(<<Get(error, "message"), Get(error, "error"), Get(error, "reason"),
              Get(error, "details")>>,
            LAMBDA v : v.t = "string", JStr(S_Unknown_error_occurred)).s
  ELSE S_Unknown_error_occurred

\* the step of the adapter that returns for error, or a step that does not apply
FirstStep(adapter, error) ==
  Find(adapter.steps, LAMBDA step : StepApplies(error, step), [want |-> "none"])

\* the adapter's own reading of an object, or the base class's
ResultOr(error, step) ==
  IF step.want = "none" THEN extractMessageFromError(error) ELSE StepResult(error, step)

\* adapter.extractErrorMessage(error)
adapterExtractErrorMessage(adapter, error) ==
  IF error.t = "string" THEN error.s
  ELSE IF IsObject(error) THEN ResultOr(error, FirstStep(adapter, error))
  ELSE extractMessageFromError(error)

\* BaseChainAdapter.hasErrorProperty
hasErrorProperty(error, property) == IsObject(error) /\ HasProp(error, property)

\* adapter.matchesErrorFormat(error)
matchesErrorFormat(adapter, error) ==
  IF error.t = "string"
  THEN \E i \in 1..Len(adapter.hints) : includes(error.s, adapter.hints[i])
  ELSE IF IsObject(error)
  THEN \E i \in 1..Len(adapter.props) : hasErrorProperty(error, adapter.props[i])
  ELSE FALSE

\* an adapter of the caller's one of whose methods throws the value thrown;
\* its matchesErrorFormat answers true when it is extractErrorMessage that
\* throws
ThrowingAdapter(method, thrown) ==
  [ecosystem |-> "near", hints |-> <<>>, props |-> <<>>, steps |-> <<>>,
   throwsIn |-> method, thrown |-> thrown]

throws(adapter, method) == "throwsIn" \in DOMAIN adapter /\ adapter.throwsIn = method

\* adapter.matchesErrorFormat(error) returns true or throws
decides(adapter, error) ==
  IF "throwsIn" \in DOMAIN adapter THEN TRUE ELSE matchesErrorFormat(adapter, error)

\* AdapterRegistry.adapters after initializeDefaultAdapters, in Map order
adapters ==
  <<SolanaAdapter, CosmosAdapter, NearAdapter, CardanoAdapter, PolkadotAdapter,
    AlgorandAdapter, TezosAdapter, StellarAdapter, RippleAdapter>>

\* AdapterRegistry.getAdapter: the adapter, or undefined
getAdapter(ecosystem) ==
  Find(adapters, LAMBDA adapter : adapter.ecosystem = ecosystem, JUndef)

\* AdapterRegistry.getEVMAdapter()
getEVMAdapter == EVMAdapter

\* the EVM adapter when it matches, or null
EVMOrNull(adapter, error) ==
  IF matchesErrorFormat(adapter, error) THEN adapter ELSE JNull

\* lines 77-89 of detectAdapter: the first of the registered adapters that
\* matches, or a new EVMAdapter when that matches, or null
firstMatching(registered, error) ==
  Find(registered, LAMBDA adapter : matchesErrorFormat(adapter, error),
       EVMOrNull(getEVMAdapter, error))

\* AdapterRegistry.detectAdapter, in a registry no adapter was registered in
\* or removed from since its construction
detectAdapter(error) == firstMatching(adapters, error)

\* the Map AdapterRegistry.adapters after initializeDefaultAdapters
initializeDefaultAdapters ==
  [i \in 1..Len(adapters) |-> [key |-> adapters[i].ecosystem, value |-> adapters[i]]]

\* AdapterRegistry.registerAdapter(ecosystem, adapter): the Map afterwards
registerAdapter(map, ecosystem, adapter) == MapSet(map, ecosystem, adapter)

\* AdapterRegistry.unregisterAdapter(ecosystem): the Map afterwards
unregisterAdapter(map, ecosystem) == MapDelete(map, ecosystem)

\* adapter || adapterRegistry.getEVMAdapter()
AdapterOr(found, evm) == IF found \in {JUndef, JNull} THEN evm ELSE found

\* extractErrorMessage(error, ecosystem); ecosystem is a name or undefined
extractErrorMessage(error, ecosystem) ==
  adapterExtractErrorMessage(
    AdapterOr(IF ecosystem.t = "string" /\ ecosystem.s # <<>>
              THEN getAdapter(ecosystem.s[1])
              ELSE detectAdapter(error),
              getEVMAdapter),
    error)

----------------------------------------------------------------------------
(* Error type detection *)

\* ERROR_TYPE_KEYWORDS, in Object.entries order
ERROR_TYPE_KEYWORDS ==
  <<
    [type |-> "WALLET", keywords |-> <<
      <<"w", "a", "l", "l", "e", "t">>,
      <<"u", "s", "e", "r", " ", "r", "e", "j", "e", "c", "t", "e", "d">>,
      <<"u", "s", "e", "r", " ", "d", "e", "n", "i", "e", "d">>,
      <<"w", "a", "l", "l", "e", "t", " ", "c", "o", "n", "n", "e", "c", "t", "i", "o", "n">>,
      <<"b", "i", "l", "l", "e", "t", "e", "r", "a">>,
      <<"c", "a", "r", "t", "e", "i", "r", "a">>,
      <<"p", "o", "r", "t", "e", "f", "e", "u", "i", "l", "l", "e">>
    >>],
    [type |-> "CONTRACT", keywords |-> <<
      <<"c", "o", "n", "t", "r", "a", "c", "t">>,
      <<"e", "x", "e", "c", "u", "t", "i", "o", "n", " ", "r", "e", "v", "e", "r", "t", "e", "d">>,
      <<"r", "e", "v", "e", "r", "t">>,
      <<"c", "o", "n", "t", "r", "a", "t", "o">>,
      <<"c", "o", "n", "t", "r", "a", "t">>
    >>],
    [type |-> "GAS", keywords |-> <<
      <<"g", "a", "s">>,
      <<"i", "n", "s", "u", "f", "f", "i", "c", "i", "e", "n", "t", " ", "g", "a", "s">>,
      <<"o", "u", "t", " ", "o", "f", " ", "g", "a", "s">>,
      <<"g", "a_acute", "s">>,
      <<"g", "a", "z">>
    >>],
    [type |-> "TRANSACTION", keywords |-> <<
      <<"t", "r", "a", "n", "s", "a", "c", "t", "i", "o", "n">>,
      <<"t", "x">>,
      <<"n", "o", "n", "c", "e">>,
      <<"t", "r", "a", "n", "s", "a", "c", "c", "i", "o_acute", "n">>,
      <<"t", "r", "a", "n", "s", "a", "c_cedilla", "a_tilde", "o">>,
      <<"t", "r", "a", "n", "s", "a", "c", "t", "i", "o", "n">>
    >>],
    [type |-> "NETWORK", keywords |-> <<
      <<"n", "e", "t", "w", "o", "r", "k">>,
      <<"t", "i", "m", "e", "o", "u", "t">>,
      <<"c", "o", "n", "n", "e", "c", "t", "i", "o", "n">>,
      <<"r", "e", "d">>,
      <<"r", "e", "d", "e">>,
      <<"r", "e_acute", "s", "e", "a", "u">>,
      <<"c", "o", "n", "e", "x", "i", "o_acute", "n">>,
      <<"c", "o", "n", "e", "x", "a_tilde", "o">>,
      <<"c", "o", "n", "n", "e", "x", "i", "o", "n">>
    >>]
  >>

\* whether the lowercased message includes one of the keywords
includesAny(message, keywords) ==
  \E k \in 1..Len(keywords) : includes(message, keywords[k])

\* a detectErrorType that returns the last type of the table that applies
lastType(message) ==
  Find([i \in 1..Len(ERROR_TYPE_KEYWORDS) |->
          ERROR_TYPE_KEYWORDS[Len(ERROR_TYPE_KEYWORDS) + 1 - i]],
       LAMBDA entry : includesAny(message, entry.keywords), [type |-> ""]).type

\* the type of the first entry one of whose keywords message includes, or null
firstType(message) ==
  Find(ERROR_TYPE_KEYWORDS, LAMBDA entry : includesAny(message, entry.keywords),
       [type |-> ""]).type

\* the ErrorType of a name, null for none
typeOrNull(type) == IF type = "" THEN JNull ELSE JStr(<<type>>)

\* detectErrorType
detectErrorType(errorMessage) == typeOrNull(firstType(toLowerCase(errorMessage)))

----------------------------------------------------------------------------
(* Mapping assembly and matching *)

ETHEREUM == T("ethereum")

\* Object.values(SupportedChain)
SupportedChain ==
  {T("ethereum"), T("polygon"), T("arbitrum"), T("optimism"), T("bsc"),
   T("avalanche"), T("fantom"), T("base")}

\* CHAIN_REGISTRY[chain].errorCategories: the same seven entries for every chain
CHAIN_REGISTRY ==
  [chain \in SupportedChain |->
     [errorCategories |->
        <<[category |-> "erc20", priority |-> 10, enabled |-> TRUE],
          [category |-> "gas", priority |-> 9, enabled |-> TRUE],
          [category |-> "wallet", priority |-> 8, enabled |-> TRUE],
          [category |-> "network", priority |-> 7, enabled |-> TRUE],
          [category |-> "transaction", priority |-> 6, enabled |-> TRUE],
          [category |-> "evm", priority |-> 5, enabled |-> TRUE],
          [category |-> "contract", priority |-> 4, enabled |-> TRUE]>>]]

\* getBuiltInChains(): Object.values(SupportedChain), in the order of the enum
getBuiltInChains ==
  <<T("ethereum"), T("polygon"), T("arbitrum"), T("optimism"), T("bsc"),
    T("avalanche"), T("fantom"), T("base")>>

\* customChainRegistry.getAll().map(config => config.chainId)
customChainIds == [i \in 1..Len(chains) |-> chains[i].value.chainId]

\* getAvailableChains(): the custom chains, then the built-in ones
getAvailableChains ==
  customChainIds \o [i \in 1..Len(getBuiltInChains) |-> JStr(getBuiltInChains[i])]

\* getChainStats()
getChainStats ==
  [total |-> Len(getAvailableChains), builtIn |-> Len(getBuiltInChains),
   custom |-> Len(customChainIds), chains |-> getAvailableChains]

\* Array.prototype.sort((a, b) => key(b) - key(a)): descending by key, and
\* stable, so equal keys keep their order; keys[i] is the key of s[i]
SortDescending(s, keys) ==
  LET n == Len(s)
      Before(i, j) == keys[i] > keys[j] \/ (keys[i] = keys[j] /\ i < j)
      Rank(i) == Cardinality({j \in 1..n : Before(j, i)}) + 1
  IN [r \in 1..n |-> s[CHOOSE i \in 1..n : Rank(i) = r]]

\* Array.prototype.flat of a sequence of sequences
RECURSIVE Flatten(_)
Flatten(ss) == IF ss = <<>> THEN <<>> ELSE Head(ss) \o Flatten(Tail(ss))

\* getEnabledErrorCategories(chain)
byPriority(categories) ==
  SortDescending(categories, [i \in 1..Len(categories) |-> categories[i].priority])

getEnabledErrorCategories(chain) ==
  byPriority(SelectSeq(CHAIN_REGISTRY[chain].errorCategories, LAMBDA cat : cat.enabled))

\* ERROR_CATEGORY_MAPPINGS, in Object.values order.  The mapping files are
\* not part of the sources: two entries stand for their content.
ERROR_CATEGORY_MAPPINGS ==
  <<[category |-> "erc20", mappings |-> <<>>],
    [category |-> "gas", mappings |->
       <<Mapping(JStr(S_out_of_gas), JStr(T("built-in: out of gas")), JUndef, JNum(10))>>],
    [category |-> "wallet", mappings |-> <<>>],
    [category |-> "network", mappings |->
       <<Mapping(JStr(S_network_error), JStr(T("built-in: network error")), JUndef, JNum(10))>>],
    [category |-> "transaction", mappings |-> <<>>],
    [category |-> "evm", mappings |-> <<>>],
    [category |-> "contract", mappings |-> <<>>]>>

\* ERROR_CATEGORY_MAPPINGS[category]?.mappings, nothing for a category it lacks
categoryMappings(table, category) ==
  Find(table, LAMBDA entry : entry.category = category, [mappings |-> <<>>]).mappings

\* the mappings of the categories, in their order
mappingsOf(table, categories) ==
  Flatten([i \in 1..Len(categories) |-> categoryMappings(table, categories[i].category)])

\* the built-in part of loadErrorMappings(chain), before the sort: the
\* enabled categories of a supported chain, every category otherwise
builtInMappings(chain) ==
  mappingsOf(ERROR_CATEGORY_MAPPINGS,
             IF chain.t = "string" /\ chain.s \in SupportedChain
             THEN getEnabledErrorCategories(chain.s)
             ELSE ERROR_CATEGORY_MAPPINGS)

\* a loadErrorMappings that returns the mappings as collected
keepOrder(allMappings) == allMappings

\* mappings.sort((a, b) => (b.priority ?? 0) - (a.priority ?? 0))
sortByPriority(allMappings) ==
  SortDescending(allMappings,
     [i \in 1..Len(allMappings) |-> Nullish(allMappings[i].priority, JNum(0)).n])

\* loadErrorMappings(chain): the custom chain's mappings, then the built-in
\* ones, sorted by priority ?? 0, highest first
loadErrorMappings(chain) ==
  sortByPriority((IF has(chain) THEN getErrorMappings(chain) ELSE <<>>)
                   \o builtInMappings(chain))

\* a Record<string, string> in Object.entries order: entries [k, v]
JDict(e) == [t |-> "object", e |-> e]

\* an addCustomMappings that puts the caller's mappings after the others
addCustomMappingsLast(existingMappings, customMappings) ==
  existingMappings
    \o [i \in 1..Len(customMappings.e) |->
          Mapping(JStr(customMappings.e[i].k), customMappings.e[i].v, JUndef, JNum(100))]

\* addCustomMappings(existingMappings, customMappings)
addCustomMappings(existingMappings, customMappings) ==
  [i \in 1..Len(customMappings.e) |->
     Mapping(JStr(customMappings.e[i].k), customMappings.e[i].v, JUndef, JNum(100))]
    \o existingMappings

\* new RegExp(pattern, 'i') succeeds.  The patterns here are letters, spaces
\* and parentheses: one compiles when its parentheses are balanced.
RECURSIVE Balanced(_, _)
Balanced(pattern, depth) ==
  IF pattern = <<>> THEN depth = 0
  ELSE IF Head(pattern) = "(" THEN Balanced(Tail(pattern), depth + 1)
  ELSE IF Head(pattern) = ")" THEN depth > 0 /\ Balanced(Tail(pattern), depth - 1)
  ELSE Balanced(Tail(pattern), depth)

\* new RegExp(pattern, 'i').test(errorMessage) for a pattern that compiles:
\* the groups only bracket literals, so it is a case-blind substring test
RegExpTest(pattern, errorMessage) ==
  includes(toLowerCase(errorMessage),
           toLowerCase(SelectSeq(pattern, LAMBDA c : c \notin {"(", ")"})))

\* a matchesPattern that accepts a message containing the pattern
containsLower(message, patternLower) == includes(message, patternLower)

\* message === patternLower
equalsLower(message, patternLower) == message = patternLower

\* matchesPattern(errorMessage, mapping)
matchesPattern(errorMessage, mapping) ==
  IF Truthy(mapping.isRegex) /\ Balanced(mapping.pattern.s, 0)
  THEN RegExpTest(mapping.pattern.s, errorMessage)
  ELSE equalsLower(toLowerCase(errorMessage), toLowerCase(mapping.pattern.s))

\* findBestMatch(errorMessage, mappings): the first mapping that matches, or null
findBestMatch(errorMessage, mappings) ==
  Find(mappings, LAMBDA mapping : matchesPattern(errorMessage, mapping), JNull)

----------------------------------------------------------------------------
(* i18n manager.  i18n holds currentLanguage, supportedLanguages (a Set, in  *)
(* insertion order) and the Maps developerLocales and globalOverrides, as    *)
(* entries [key, value] in insertion order.  A translation key is its        *)
(* segments and the dots between them, 'errors.network' being                *)
(* <<"errors", ".", "network">>.                                             *)

\* the English dictionary of the manager: the table it falls back on when
\* translations/en.json cannot be loaded
englishTranslations ==
  JObj([errors |-> JObj(
     [network |-> JStr(T("Network error occurred. Please check your connection and try again.")),
      wallet |-> JStr(T("Wallet error occurred. Please check your wallet connection and try again.")),
      insufficient_funds |-> JStr(T("Insufficient balance for transaction")),
      transaction_failed |-> JStr(T("Transaction failed. Please try again.")),
      unknown_error |-> JStr(T("An unknown error occurred"))])])

\* TRANSLATION_REGISTRY, in Object.entries order: en and es stand for the
\* twenty languages.  The language files are not part of the sources.
TRANSLATION_REGISTRY ==
  <<[key |-> T("en"), value |-> englishTranslations],
    [key |-> T("es"), value |->
       JObj([errors |-> JObj([network |-> JStr(T("Error de red")),
                              wallet |-> JStr(T("Error de billetera"))])])]>>

\* I18nManager.registerLocale(language, translations), without overrides
registerLocale(state, language, translations) ==
  [currentLanguage |-> state.currentLanguage,
   supportedLanguages |->
     IF \E i \in 1..Len(state.supportedLanguages) : state.supportedLanguages[i] = language
     THEN state.supportedLanguages
     ELSE Append(state.supportedLanguages, language),
   developerLocales |-> MapSet(state.developerLocales, language, translations),
   globalOverrides |-> state.globalOverrides]

\* loadAllTranslations(), run when the package is imported
RECURSIVE loadAllTranslations(_, _)
loadAllTranslations(state, registry) ==
  IF registry = <<>> THEN state
  ELSE loadAllTranslations(registerLocale(state, Head(registry).key, Head(registry).value),
                           Tail(registry))

\* String.prototype.split('.')
RECURSIVE Split(_, _)
Split(s, current) ==
  IF s = <<>> THEN <<current>>
  ELSE IF Head(s) = "." THEN <<current>> \o Split(Tail(s), <<>>)
  ELSE Split(Tail(s), Append(current, Head(s)))

\* I18nManager.getNestedValue(obj, path): the string at the path, or null
RECURSIVE Descend(_, _)
Descend(current, segments) ==
  IF segments = <<>> THEN current
  ELSE IF Truthy(current) /\ current.t = "object" /\ Len(Head(segments)) = 1
            /\ HasProp(current, Head(segments)[1])
  THEN Descend(Get(current, Head(segments)[1]), Tail(segments))
  ELSE Descend(JUndef, Tail(segments))

\* typeof current === 'string' ? current : null
stringOrNull(current) == IF current.t = "string" THEN current ELSE JNull

getNestedValue(obj, path) == stringOrNull(Descend(obj, Split(path, <<>>)))

\* String.prototype.trim
RECURSIVE trim(_)
trim(s) ==
  IF s # <<>> /\ Head(s) = " " THEN trim(Tail(s))
  ELSE IF s # <<>> /\ s[Len(s)] = " " THEN trim(SubSeq(s, 1, Len(s) - 1))
  ELSE s

\* a function object
JFunction == [t |-> "function"]

\* the properties every plain object inherits from Object.prototype, one
\* symbol each, of which two stand for all
ObjectPrototype == {<<"constructor">>, <<"toString">>}

\* what obj[k] finds on the prototype when obj has no own property k
inherited(k) == IF k \in ObjectPrototype THEN JFunction ELSE JUndef

\* overrides[key] of a Record kept as entries [k, v]: the own property, the
\* inherited one, or undefined
DictGet(dict, k) ==
  IF dict.t = "object"
  THEN Find(dict.e, LAMBDA entry : entry.k = k, [v |-> inherited(k)]).v
  ELSE JUndef

\* locale ? this.getNestedValue(locale, key) : null
nestedOrNull(locale, key) ==
  IF locale = JUndef THEN JNull ELSE getNestedValue(locale, key)

\* I18nManager.getDeveloperTranslation(key, language)
getDeveloperTranslation(key, language) ==
  nestedOrNull(MapGet(i18n.developerLocales, language), key)

\* the returns of translate: the override when it is truthy, the developer's
\* or the English translation when it is not blank, or the key itself.
\* interpolate without params returns its argument as it is.
firstTranslation(key, override, developerTranslation, englishTranslation) ==
  IF Truthy(override) THEN override
  ELSE IF Truthy(developerTranslation) /\ trim(developerTranslation.s) # <<>>
  THEN developerTranslation
  ELSE IF Truthy(englishTranslation) /\ trim(englishTranslation.s) # <<>>
  THEN englishTranslation
  ELSE JStr(key)

\* the lookups of translate in the language it settled on
translateIn(key, targetLanguage) ==
  firstTranslation(key,
                   DictGet(MapGet(i18n.globalOverrides, targetLanguage), key),
                   getDeveloperTranslation(key, targetLanguage),
                   getNestedValue(englishTranslations, key))

\* I18nManager.translate(key, language), without params
translate(key, language) ==
  translateIn(key, IF Truthy(language) THEN language.s ELSE i18n.currentLanguage)

\* I18nManager.translate(key, language) of a manager in the given state
translateOf(state, key, language) ==
  LET targetLanguage == IF Truthy(language) THEN language.s ELSE state.currentLanguage
  IN firstTranslation(key,
                      DictGet(MapGet(state.globalOverrides, targetLanguage), key),
                      nestedOrNull(MapGet(state.developerLocales, targetLanguage), key),
                      getNestedValue(englishTranslations, key))

\* obj[k] = v on entries [k, v]: a present key keeps its place
EntrySet(entries, k, v) ==
  IF \E i \in 1..Len(entries) : entries[i].k = k
  THEN [i \in 1..Len(entries) |-> IF entries[i].k = k THEN [k |-> k, v |-> v] ELSE entries[i]]
  ELSE Append(entries, [k |-> k, v |-> v])

\* { ...a, ...b } on entries
RECURSIVE Spread(_, _)
Spread(a, b) ==
  IF b = <<>> THEN a ELSE Spread(EntrySet(a, Head(b).k, Head(b).v), Tail(b))

\* I18nManager.addOverrides(language, overrides)
addOverrides(state, language, overrides) ==
  [state EXCEPT !.globalOverrides =
     MapSet(@, language,
            JDict(Spread(Or(MapGet(state.globalOverrides, language), JDict(<<>>)).e, overrides.e)))]

\* I18nManager.removeOverrides(language, keys)
removeOverrides(state, language, keys) ==
  [state EXCEPT !.globalOverrides =
     MapSet(@, language,
            JDict(SelectSeq(Or(MapGet(state.globalOverrides, language), JDict(<<>>)).e,
                            LAMBDA entry : entry.k \notin keys)))]

\* a setCurrentLanguage that does not ask whether the language is supported
setAnyLanguage(state, language) ==
  [state EXCEPT !.currentLanguage = language]

\* I18nManager.setCurrentLanguage(language)
setCurrentLanguage(state, language) ==
  IF \E i \in 1..Len(state.supportedLanguages) : state.supportedLanguages[i] = language
  THEN [state EXCEPT !.currentLanguage = language]
  ELSE state

\* I18nManager.registerLocale(language, translations, overrides)
registerLocaleWith(state, language, translations, overrides) ==
  IF Truthy(overrides)
  THEN [registerLocale(state, language, translations) EXCEPT
          !.globalOverrides = MapSet(@, language, overrides)]
  ELSE registerLocale(state, language, translations)

\* I18nManager.registerLocales(locales); locales is Object.entries of the
\* record, each entry a language and its translations and overrides
RECURSIVE registerLocales(_, _)
registerLocales(state, locales) ==
  IF locales = <<>> THEN state
  ELSE registerLocales(registerLocaleWith(state, Head(locales).lang,
                                          Head(locales).translations,
                                          Head(locales).overrides),
                       Tail(locales))

\* a clear that leaves the current language as it is
i18nClearKeepingLanguage(state) ==
  [currentLanguage |-> state.currentLanguage, supportedLanguages |-> <<T("en")>>,
   developerLocales |-> <<>>, globalOverrides |-> <<>>]

\* I18nManager.clear()
i18nClear(state) ==
  [currentLanguage |-> T("en"), supportedLanguages |-> <<T("en")>>,
   developerLocales |-> <<>>, globalOverrides |-> <<>>]

----------------------------------------------------------------------------
(* Language bundle manager.  loadedLanguages is its Set of loaded           *)
(* languages, in insertion order; the languages it loads are registered     *)
(* with the i18n manager.                                                    *)

\* Object.keys(DEFAULT_LANGUAGES)
availableLanguages ==
  {T("en"), T("zh"), T("es"), T("pt"), T("ja"), T("ko"), T("de"), T("ru"), T("hi"),
   T("ar"), T("tr"), T("vi"), T("th"), T("id"), T("pl"), T("uk"), T("he"), T("fr"),
   T("it"), T("nl")}

\* LanguageBundleManager.loadTranslationData(language): { errors: {} }
\* whether or not the language is configured
loadTranslationData(language) == JObj([errors |-> JObj(<<>>)])

isLanguageLoaded(loaded, language) == \E i \in 1..Len(loaded) : loaded[i] = language

\* LanguageBundleManager.loadLanguage(language); state is the Set of loaded
\* languages and the i18n manager
loadLanguage(state, language) ==
  IF isLanguageLoaded(state.loaded, language) THEN state
  ELSE [loaded |-> Append(state.loaded, language),
        i18n |-> registerLocale(state.i18n, language, loadTranslationData(language))]

\* LanguageBundleManager.unloadLanguage(language)
unloadLanguage(loaded, language) ==
  IF language = T("en") THEN loaded
  ELSE SelectSeq(loaded, LAMBDA code : code # language)

\* requested.split('-')[0] || requested, for the codes requested here
baseLanguage(requested) == IF requested = T("es-MX") THEN T("es") ELSE requested

\* suggestLanguage(requested, false).available: the code, that of its base
\* language, or null
suggestLanguage(requested) ==
  IF requested \in availableLanguages THEN JStr(requested)
  ELSE IF baseLanguage(requested) \in availableLanguages THEN JStr(baseLanguage(requested))
  ELSE JNull

\* the loop of configureLanguageSelection over targetLanguages; English is
\* always loaded, so what follows the loop loads nothing
RECURSIVE configureLanguageSelection(_, _)
configureLanguageSelection(state, targetLanguages) ==
  IF targetLanguages = <<>> THEN state
  ELSE configureLanguageSelection(
         IF suggestLanguage(Head(targetLanguages)) # JNull
         THEN loadLanguage(state, suggestLanguage(Head(targetLanguages)).s)
         ELSE state,
         Tail(targetLanguages))

----------------------------------------------------------------------------
(* The calls made.  Chain 'c1' is registered, unregistered and registered   *)
(* again with another configuration; 'c2' shares the registry with it.      *)

mNetworkLow ==
  Mapping(JStr(S_network_error), JStr(T("c1: network error, no priority")), JUndef, JUndef)
mNetworkHigh ==
  Mapping(JStr(S_network_error), JStr(T("c1: network error, priority 20")), JUndef, JNum(20))
mCustom ==
  Mapping(JStr(S_custom_error), JStr(T("c1: custom error, priority 150")), JUndef, JNum(150))
mCustomOther ==
  Mapping(JStr(S_custom_error), JStr(T("c1 again: custom error")), JUndef, JNum(15))
mCustomLow ==
  Mapping(JStr(S_Custom_Error), JStr(T("c1 again: custom error, no priority")), JUndef, JUndef)
mGasRegex ==
  Mapping(JStr(S_gas), JStr(T("c1: gas, regex")), JBool(TRUE), JNum(5))

\* c1 with three mappings and no customFallbacks
ConfigPlain ==
  Config(JStr(T("c1")), JStr(T("Chain one")),
         JArr(<<mNetworkLow, mNetworkHigh, mCustom>>), JUndef)

\* c1 with three other mappings, customFallbacks for generic and network, an
\* empty one for wallet and none for contract
ConfigFallbacks ==
  Config(JStr(T("c1")), JStr(T("Chain one")),
         JArr(<<mCustomLow, mCustomOther, mGasRegex>>),
         JObj([generic |-> JStr(T("c1 fallback: generic")),
               network |-> JStr(T("c1 fallback: network")),
               wallet |-> JStr(<<>>)]))

ConfigSecond == Config(JStr(T("c2")), JStr(T("Chain two")), JArr(<<>>), JUndef)

\* a custom chain registered under the id of a built-in chain: one mapping
\* without priority, one of the priority of the built-in ones, one above
mEthereumLow ==
  Mapping(JStr(S_custom_error), JStr(T("ethereum: custom error, no priority")), JUndef, JUndef)
mEthereumSame ==
  Mapping(JStr(S_network_error), JStr(T("ethereum: network error, priority 10")), JUndef, JNum(10))
mEthereumHigh ==
  Mapping(JStr(S_custom_error), JStr(T("ethereum: custom error, priority 20")), JUndef, JNum(20))

ConfigEthereum ==
  Config(JStr(T("ethereum")), JStr(T("Ethereum, customised")),
         JArr(<<mEthereumLow, mEthereumSame, mEthereumHigh>>), JUndef)

\* the chains loadErrorMappings is asked for: custom, built-in, both, neither
LoadChains ==
  {JStr(T("c1")), JStr(T("c2")), JStr(T("ethereum")), JStr(T("polygon")),
   JStr(T("unknown"))}

\* a mapping whose pattern is part of 'out of gas', not a regular expression
mGasPlain ==
  Mapping(JStr(S_gas), JStr(T("gas, not a regex")), JBool(FALSE), JNum(5))

\* a mapping marked as a regular expression whose pattern does not compile
mGasBroken ==
  Mapping(JStr(S_gas_open), JStr(T("gas(, a regex that does not compile")), JBool(TRUE), JNum(5))

\* the messages and the lists of mappings findBestMatch is given
MatchMessages ==
  {S_gas, S_out_of_gas, S_custom_error, S_Custom_Error, S_network_error,
   S_gas_open, S_out_of_gas_open}

MatchMappings == {mGasPlain, mGasRegex, mGasBroken, mCustom, mCustomLow, mCustomOther}

MatchLists == UNION {[1..n -> MatchMappings] : n \in 0..MaxMappings}

\* the words of the messages detectErrorType is given: keywords of every
\* type, some in capitals, 'registered', which contains 'red', and 'failed'
DetectWords ==
  {<<"W", "a", "l", "l", "e", "t">>,
   <<"u", "s", "e", "r", " ", "r", "e", "j", "e", "c", "t", "e", "d">>,
   <<"c", "o", "n", "t", "r", "a", "c", "t">>,
   <<"R", "e", "v", "e", "r", "t">>,
   <<"G", "A", "S">>,
   <<"t", "x">>,
   <<"n", "o", "n", "c", "e">>,
   <<"n", "e", "t", "w", "o", "r", "k">>,
   <<"t", "i", "m", "e", "o", "u", "t">>,
   <<"r", "e", "g", "i", "s", "t", "e", "r", "e", "d">>,
   <<"f", "a", "i", "l", "e", "d">>}

\* the words of a list, a space between them
RECURSIVE JoinWords(_)
JoinWords(words) ==
  IF words = <<>> THEN <<>>
  ELSE IF Len(words) = 1 THEN Head(words)
  ELSE Head(words) \o <<" ">> \o JoinWords(Tail(words))

DetectMessages ==
  {JoinWords(words) : words \in UNION {[1..n -> DetectWords] : n \in 0..MaxWords}}

\* adapters that throw an Error or null, and the calls made with them
ThrowingAdapters ==
  {ThrowingAdapter(method, thrown) :
     method \in {"matchesErrorFormat", "extractErrorMessage"},
     thrown \in {JError(T("boom")), JNull}}

\* the languages the bundle manager is asked for: two it has, a regional
\* variant of one, and one it does not have
BundleLanguages == {T("es"), T("fr")}

TargetLanguages == {<<T("es")>>, <<T("fr"), T("xx")>>, <<T("es-MX"), T("fr")>>}

\* c1 with a mapping of the priority of the built-in one for 'network
\* error', and c1 with one of no priority
mNetworkSame ==
  Mapping(JStr(S_network_error), JStr(T("c1: network error, priority 10")), JUndef, JNum(10))

ConfigSame ==
  Config(JStr(T("c1")), JStr(T("Chain one")), JArr(<<mNetworkSame>>), JUndef)

ConfigLower ==
  Config(JStr(T("c1")), JStr(T("Chain one")), JArr(<<mNetworkLow>>), JUndef)

ValidConfigs == {ConfigPlain, ConfigFallbacks}

\* configurations validateConfig rejects, one for each of its checks
InvalidConfigs ==
  {Config(JStr(<<>>), JStr(T("No id")), JArr(<<>>), JUndef),
   Config(JNum(7), JStr(T("Numeric id")), JArr(<<>>), JUndef),
   Config(JStr(T("c1")), JUndef, JArr(<<>>), JUndef),
   Config(JStr(T("c1")), JStr(<<>>), JArr(<<>>), JUndef),
   Config(JStr(T("c2")), JStr(T("No mappings")), JUndef, JUndef),
   Config(JStr(T("c2")), JStr(T("Mappings object")), JObj([length |-> JNum(0)]), JUndef),
   Config(JStr(T("c1")), JStr(T("Empty pattern")),
          JArr(<<mCustom, Mapping(JStr(<<>>), JStr(T("m")), JUndef, JUndef)>>), JUndef),
   Config(JStr(T("c2")), JStr(T("No message")),
          JArr(<<Mapping(JStr(S_gas), JUndef, JUndef, JUndef)>>), JUndef),
   Config(JStr(T("c2")), JStr(T("Numeric pattern")),
          JArr(<<Mapping(JNum(1), JStr(T("m")), JUndef, JUndef)>>), JUndef)}

ChainIds == {JStr(T("c1")), JStr(T("c2"))}

\* a TranslateErrorOptions object; an absent property is undefined
Options(chain, fallbackMessage, customMappings, language) ==
  [chain |-> chain, ecosystem |-> JUndef, fallbackMessage |-> fallbackMessage,
   includeOriginalError |-> JUndef, customMappings |-> customMappings,
   language |-> language]

CallerMappings ==
  JDict(<<[k |-> S_custom_error, v |-> JStr(T("options: custom error"))],
          [k |-> S_network_error, v |-> JStr(T("options: network error"))]>>)

CallerFallback == JStr(T("Caller fallback"))

AllOptions ==
  {Options(chain, fallbackMessage, customMappings, JUndef) :
     chain \in {JUndef, JStr(T("c1"))},
     fallbackMessage \in {JUndef, CallerFallback},
     customMappings \in {JUndef, CallerMappings}}
  \cup {Options(JUndef, JUndef, JUndef, JStr(T("es")))}

AllErrors ==
  {JStr(S_empty),
   JStr(S_network_error),
   JStr(S_out_of_gas),
   JError(S_custom_error),
   JError(S_wallet_issue),
   JObj([message |-> JStr(S_contract_failed)]),
   JObj([code |-> JNum(4001), message |-> JStr(S_Custom_Error)]),
   JObj([message |-> JNull, error |-> JObj([message |-> JUndef])])}

\* the calls made while an adapter throws
ThrowOptions ==
  {Options(JUndef, JUndef, JUndef, JUndef),
   Options(JStr(T("c1")), CallerFallback, JUndef, JUndef)}

\* messages that a built-in mapping matches on every chain: each call with
\* one of them is cached under a key of its own
EvictErrors == {JStr(S_network_error), JStr(S_out_of_gas)}

\* the calls of the scenarios with the caller's mappings
OverrideOptions ==
  {Options(chain, JUndef, CallerMappings, JUndef) : chain \in {JUndef, JStr(T("c1"))}}

OverrideErrors ==
  {JStr(S_network_error),
   JError(S_custom_error),
   JError(S_wallet_issue),
   JObj([code |-> JNum(4001), message |-> JStr(S_Custom_Error)])}

\* the calls of the scenarios that ask for the original error: the same
\* message as a string and as the message of an object
OriginalOptions ==
  {[Options(JStr(T("c1")), JUndef, JUndef, JUndef) EXCEPT !.includeOriginalError = include] :
     include \in {JUndef, JBool(TRUE), JBool(FALSE)}}

OriginalErrors ==
  {JStr(S_network_error),
   JObj([message |-> JStr(S_network_error)]),
   JError(S_wallet_issue)}

\* the calls of the cache scenarios
FewOptions ==
  {Options(JStr(T("c1")), JUndef, JUndef, JUndef),
   Options(JUndef, JUndef, JUndef, JUndef)}

FewErrors == {JError(S_custom_error), JStr(S_network_error)}

\* an adapter of the caller's for the 'near' ecosystem
CustomAdapter ==
  [ecosystem |-> "near",
   hints |-> <<S_gas>>,
   props |-> <<"data">>,
   steps |-> <<[guard |-> "", path |-> <<"message">>, array |-> FALSE, want |-> "string", text |-> <<>>]>>]

\* the adapters registered, each under an ecosystem, and the ecosystems
\* unregistered
AdapterRegistrations ==
  {<<"evm", EVMAdapter>>, <<"cosmos", CosmosAdapter>>, <<"solana", SolanaAdapter>>,
   <<"near", CustomAdapter>>}

AdapterEcosystems == {"evm", "cosmos", "solana", "near"}

\* errors for detectAdapter: 'out of gas' and {code, message} are in the
\* format of Cosmos and of the EVM, {data, slot} in that of Solana and of the
\* EVM, 'network error' in nobody's
DetectErrors ==
  {JStr(S_out_of_gas),
   JStr(S_network_error),
   JObj([data |-> JStr(T("0x")), slot |-> JNum(1)]),
   JObj([code |-> JNum(4001), message |-> JStr(S_Custom_Error)])}

\* inputs of extractErrorMessage: a string, null, undefined, a number, a
\* boolean, an array, and objects whose fields are strings, are not strings,
\* or are nested with null, a number or an object where an object is read
ExtractErrors ==
  {JStr(S_network_error), JStr(S_empty), JNull, JUndef, JNum(0), JNum(7), JBool(TRUE),
   JArr(<<JStr(S_network_error)>>),
   JObj([unrelated |-> JStr(T("u"))]),
   JObj([message |-> JNum(5)]),
   JObj([message |-> JStr(T("m")), reason |-> JStr(T("r"))]),
   JObj([reason |-> JStr(T("r")), error |-> JObj([message |-> JStr(T("e"))])]),
   JObj([data |-> JObj([message |-> JStr(T("d"))])]),
   JObj([error |-> JObj([message |-> JStr(T("e"))]), data |-> JObj([message |-> JStr(T("d"))])]),
   JObj([details |-> JStr(T("details"))]),
   JObj([error |-> JNull, data |-> JNull, result |-> JNull, tx_response |-> JNull]),
   JObj([data |-> JObj([err |-> JNull]), Failure |-> JObj([ActionError |-> JNull])]),
   JObj([InstructionError |-> JArr(<<JNum(0), JObj([Custom |-> JNum(6000)])>>)]),
   JObj([InstructionError |-> JArr(<<JNum(0), JNull>>)]),
   JObj([InstructionError |-> JObj([Custom |-> JNum(1)]), ExtrinsicFailed |-> JNum(1)]),
   JObj([AccountDoesNotExist |-> JBool(TRUE), BalanceTooLow |-> JNum(1)])}

\* translation keys: two the English dictionary has, one it lacks, and one
\* that names a property of Object.prototype
K_network == <<"errors", ".", "network">>
K_wallet == <<"errors", ".", "wallet">>
K_missing == <<"errors", ".", "missing">>
K_constructor == <<"constructor">>

TranslationKeys == {K_network, K_wallet, K_missing, K_constructor}

\* the languages of the i18n calls: 'fr' is not registered at the start
Languages == {T("en"), T("es"), T("fr")}

\* a dictionary whose network entry is blank and whose wallet entry is empty,
\* and one with a network entry only
LocaleBlank ==
  JObj([errors |-> JObj([network |-> JStr(<<" ">>), wallet |-> JStr(<<>>)])])
LocaleNetwork ==
  JObj([errors |-> JObj([network |-> JStr(T("locale: network"))])])

LocaleDicts == {LocaleBlank, LocaleNetwork}

\* overrides: one with a network entry, one with an empty wallet entry and
\* an entry for the key no dictionary has
OverridesNetwork == JDict(<<[k |-> K_network, v |-> JStr(T("override: network"))]>>)
OverridesMissing ==
  JDict(<<[k |-> K_wallet, v |-> JStr(<<>>)],
          [k |-> K_missing, v |-> JStr(T("override: missing"))]>>)

OverrideDicts == {OverridesNetwork, OverridesMissing}

\* records given to registerLocales: French alone, and French with German
\* and its overrides
LocaleRecords ==
  {<<[lang |-> T("fr"), translations |-> LocaleNetwork, overrides |-> JUndef]>>,
   <<[lang |-> T("fr"), translations |-> LocaleBlank, overrides |-> JUndef],
     [lang |-> T("de"), translations |-> LocaleNetwork, overrides |-> OverridesNetwork]>>}

\* options.customLocales of the calls: none, French added, Spanish replaced
LocalesFrench == JDict(<<[k |-> T("fr"), v |-> LocaleNetwork]>>)
LocalesSpanish == JDict(<<[k |-> T("es"), v |-> LocaleBlank]>>)
CustomLocales == {JUndef, LocalesFrench, LocalesSpanish}

\* s1 + ',' + s2 + ... for the pieces that are not empty
RECURSIVE JoinComma(_)
JoinComma(pieces) ==
  IF pieces = <<>> THEN <<>>
  ELSE LET rest == JoinComma(Tail(pieces))
       IN IF Head(pieces) = <<>> THEN rest
          ELSE IF rest = <<>> THEN Head(pieces)
          ELSE Head(pieces) \o <<",">> \o rest

\* JSON.stringify of a string, a boolean or a Record<string, string>
JSONvalue(v) ==
  CASE v.t = "string" -> <<"\"">> \o v.s \o <<"\"">>
    [] v.t = "boolean" -> IF v.b THEN <<"true">> ELSE <<"false">>
    [] v.t = "object" ->
         <<"{">> \o JoinComma([i \in 1..Len(v.e) |->
                     <<"\"">> \o v.e[i].k \o <<"\"", ":", "\"">> \o v.e[i].v.s \o <<"\"">>])
           \o <<"}">>
    [] OTHER -> <<"null">>

\* the properties of a TranslateErrorOptions object, in the order given
OptionNames ==
  <<"chain", "ecosystem", "fallbackMessage", "includeOriginalError", "customMappings", "language">>

\* JSON.stringify(options): a property that is undefined is left out
JSONstringify(options) ==
  <<"{">> \o JoinComma([i \in 1..Len(OptionNames) |->
              IF options[OptionNames[i]] = JUndef THEN <<>>
              ELSE <<"\"", OptionNames[i], "\"", ":">> \o JSONvalue(options[OptionNames[i]])])
    \o <<"}">>

\* extractErrorMessage, detectErrorType and JSON.stringify, evaluated once
\* for the arguments of the calls made
Ecosystems == {JUndef}

MessageOf ==
  [call \in (AllErrors \cup FewErrors \cup OriginalErrors) \X Ecosystems |->
     extractErrorMessage(call[1], call[2])]

\* the values of a function
Range(f) == {f[x] : x \in DOMAIN f}

TypeOf == [errorMessage \in Range(MessageOf) |-> detectErrorType(errorMessage)]

StringOf ==
  [options \in AllOptions \cup FewOptions \cup OriginalOptions |-> JSONstringify(options)]

----------------------------------------------------------------------------
(* Fallback messages and the translation cache.  cache is the Map of the    *)
(* TranslationCache, entries [key, value, timestamp] in insertion order;    *)
(* clock is Date.now().                                                     *)

\* DEFAULT_FALLBACK_MESSAGES of the translation service
DEFAULT_FALLBACK_MESSAGES ==
  [generic |-> JStr(T("An error occurred while processing your request. Please try again.")),
   network |-> JStr(T("Network error occurred. Please check your connection and try again.")),
   wallet |-> JStr(T("Wallet error occurred. Please check your wallet connection and try again.")),
   contract |-> JStr(T("Smart contract error occurred. Please check the transaction details and try again."))]

\* the property of the fallback tables that getFallbackMessage reads for a type
fallbackName(errorType) ==
  IF errorType = JStr(<<"NETWORK">>) THEN "network"
  ELSE IF errorType = JStr(<<"WALLET">>) THEN "wallet"
  ELSE IF errorType = JStr(<<"CONTRACT">>) THEN "contract"
  ELSE "generic"

\* the returns of getFallbackMessage; custom is chain && has(chain)
chosenFallback(customFallback, custom, customFallbacks, defaults, name) ==
  IF Truthy(customFallback) THEN customFallback
  ELSE IF custom /\ Truthy(customFallbacks)
  THEN Or(Get(customFallbacks, name), defaults[name])
  ELSE defaults[name]

\* getFallbackMessage(error, customFallback, chain)
getFallbackMessage(error, customFallback, chain) ==
  chosenFallback(customFallback, Truthy(chain) /\ has(chain), getCustomFallbacks(chain),
                 DEFAULT_FALLBACK_MESSAGES, fallbackName(TypeOf[MessageOf[<<error, JUndef>>]]))

\* the index of key in the Map c, 0 when it has none
CacheIndex(c, key) ==
  IF \E i \in 1..Len(c) : c[i].key = key
  THEN CHOOSE i \in 1..Len(c) : c[i].key = key
  ELSE 0

\* remove the i-th entry
RemoveAt(c, i) == SubSeq(c, 1, i - 1) \o SubSeq(c, i + 1, Len(c))

\* TranslationCache.get(key): the value or null, and the Map afterwards
entryAt(c, i) ==
  IF i = 0 THEN [value |-> JNull, cache |-> c]
  ELSE IF clock - c[i].timestamp > ttl THEN [value |-> JNull, cache |-> RemoveAt(c, i)]
  ELSE [value |-> c[i].value, cache |-> c]

cacheGet(c, key) == entryAt(c, CacheIndex(c, key))

\* Map.set of an entry on the Map left after the eviction
put(evicted, entry) ==
  IF CacheIndex(evicted, entry.key) # 0
  THEN [i \in 1..Len(evicted) |-> IF evicted[i].key = entry.key THEN entry ELSE evicted[i]]
  ELSE Append(evicted, entry)

\* a TranslationCache.set that makes room by deleting the newest entry
cacheSetDroppingNewest(c, key, value) ==
  Append(IF Len(c) >= maxSize /\ Len(c) > 0 THEN SubSeq(c, 1, Len(c) - 1) ELSE c,
         [key |-> key, value |-> value, timestamp |-> clock])

\* TranslationCache.set(key, value): the Map afterwards
cacheSet(c, key, value) ==
  put(IF Len(c) >= maxSize /\ Len(c) > 0 THEN Tail(c) ELSE c,
      [key |-> key, value |-> value, timestamp |-> clock])

----------------------------------------------------------------------------
(* translateError *)

\* an EnhancedErrorResult, without its context
Result(message, translated, originalError, chain, retryable, fallbackUsed) ==
  [message |-> message, translated |-> translated, originalError |-> originalError,
   chain |-> chain, retryable |-> retryable, fallbackUsed |-> fallbackUsed]

\* `errors.${errorType?.toLowerCase() || 'unknown'}`
translationKey(errorType) ==
  <<"errors", ".">> \o (IF errorType = JNull THEN <<"unknown">> ELSE toLowerCase(errorType.s))

\* the property of customFallbacks that translateError reads for an error
\* type before it loads any mapping, "" when it reads none
earlyFallbackName(errorType) ==
  IF errorType = JStr(<<"NETWORK">>) THEN "network"
  ELSE IF errorType = JStr(<<"WALLET">>) THEN "wallet"
  ELSE IF errorType = JStr(<<"CONTRACT">>) THEN "contract"
  ELSE ""

\* a return of translateError: the statement reached (path), the result and
\* the Map of the cache afterwards
Return(path, result, cacheAfter) ==
  [threw |-> FALSE, result |-> result, path |-> path, cache |-> cacheAfter]

\* lines 518-565: the result for the mapping that matched, which is cached
matchReturn(result, cacheKey, cacheAfter) ==
  Return("match", result, cacheSet(cacheAfter, cacheKey, result))

\* lines 567-618: the result when no mapping matched
noMatchReturn(translationFound, i18nFallback, fallback, originalError, chain, cacheAfter) ==
  Return(IF translationFound THEN "i18n" ELSE "fallback",
         Result(IF translationFound THEN i18nFallback ELSE fallback,
                translationFound, originalError, chain, FALSE, ~translationFound),
         cacheAfter)

\* lines 505-510: the mappings of the chain, under the caller's
assembled(loaded, customMappings) ==
  IF Len(customMappings.e) > 0 THEN addCustomMappings(loaded, customMappings) ELSE loaded

\* lines 505-618: the mappings are searched
searched(error, options, chain, originalError, cacheKey, cacheAfter, targetLanguage, match, key, translation) ==
  IF match # JNull
  THEN matchReturn(Result(IF Truthy(targetLanguage) /\ targetLanguage.s # T("en")
                             /\ translation # key
                          THEN translation
                          ELSE match.message,
                          TRUE, originalError, chain, FALSE, FALSE),
                   cacheKey, cacheAfter)
  ELSE noMatchReturn(translation # key, translation,
                     getFallbackMessage(error, options.fallbackMessage, chain),
                     originalError, chain, cacheAfter)

\* lines 414-502: the fallback a custom chain has for the detected type
earlyFallback(customFallbacks, name) ==
  IF Truthy(customFallbacks) /\ name # "" THEN Get(customFallbacks, name) ELSE JUndef

\* lines 414-618: the cache had nothing; translation is what the i18n manager
\* has for the type of the error
missedWith(error, options, chain, originalError, errorMessage, cacheKey, cacheAfter, errorType, early, targetLanguage, translation) ==
  IF has(chain) /\ Truthy(early)
  THEN Return("customFallback",
              Result(early, FALSE, originalError, chain, FALSE, TRUE), cacheAfter)
  ELSE searched(error, options, chain, originalError, cacheKey, cacheAfter, targetLanguage,
                findBestMatch(errorMessage,
                   assembled(loadErrorMappings(chain),
                             Default(options.customMappings, JDict(<<>>)))),
                JStr(translationKey(errorType)),
                translation)

\* lines 393-618: the cache had nothing
missed(error, options, chain, originalError, errorMessage, cacheKey, cacheAfter, errorType, early, targetLanguage) ==
  missedWith(error, options, chain, originalError, errorMessage, cacheKey, cacheAfter,
             errorType, early, targetLanguage,
             translate(translationKey(errorType), targetLanguage))

\* lines 379-390: the cache is read
looked(error, options, chain, originalError, errorMessage, cacheKey, cached, errorType) ==
  IF cached.value # JNull
  THEN Return("cache", cached.value, cached.cache)
  ELSE missed(error, options, chain, originalError, errorMessage, cacheKey, cached.cache,
              errorType,
              earlyFallback(getCustomFallbacks(chain), earlyFallbackName(errorType)),
              Or(options.language, JStr(i18n.currentLanguage)))

\* lines 379-381: the key of the call in the cache
keyed(error, options, chain, originalError, errorMessage, cacheKey) ==
  looked(error, options, chain, originalError, errorMessage, cacheKey,
         cacheGet(cache, cacheKey), TypeOf[errorMessage])

\* lines 367-380: the message of the error
extracted(error, options, chain, originalError, errorMessage) ==
  keyed(error, options, chain, originalError, errorMessage,
        errorMessage \o <<"_">> \o StringOf[options])

\* translateError(error, options) in the current state: whether it throws,
\* the result it returns, the return statement reached (path) and the cache
\* afterwards
translateErrorOutcome(error, options) ==
  IF ~Truthy(error)
  THEN [threw |-> TRUE, result |-> JUndef, path |-> "throw", cache |-> cache]
  ELSE extracted(error, options,
                 Default(options.chain, JStr(ETHEREUM)),
                 IF Truthy(options.includeOriginalError) THEN error ELSE JUndef,
                 MessageOf[<<error, options.ecosystem>>])

\* a step of the pipeline that threw, and one that returned a message
Threw(thrown) == [threw |-> TRUE, thrown |-> thrown, message |-> <<>>]
Extracted(message) == [threw |-> FALSE, thrown |-> JUndef, message |-> message]

\* adapter.extractErrorMessage(error) of the adapter chosen
extractWith(adapter, error) ==
  IF throws(adapter, "extractErrorMessage") THEN Threw(adapter.thrown)
  ELSE Extracted(adapterExtractErrorMessage(adapter, error))

\* lines 77-81 of detectAdapter for the first adapter that answers or throws
detectedWith(first, error) ==
  IF first # JNull /\ throws(first, "matchesErrorFormat") THEN Threw(first.thrown)
  ELSE extractWith(AdapterOr(first, getEVMAdapter), error)

\* extractErrorMessage(error, ecosystem) with the adapters registered
extractErrorMessageWith(registered, error, ecosystem) ==
  IF ecosystem.t = "string" /\ ecosystem.s # <<>>
  THEN extractWith(AdapterOr(MapGet(registered, ecosystem.s[1]), getEVMAdapter), error)
  ELSE detectedWith(Find(MapValues(registered), LAMBDA adapter : decides(adapter, error),
                         EVMOrNull(getEVMAdapter, error)),
                    error)

\* ConsoleErrorLogger.logError reads error.message: a TypeError for null and
\* undefined
logErrorThrows(systemError) == systemError \in {JNull, JUndef}

\* lines 619-639: the catch of translateError
caught(error, options, systemError) ==
  IF logErrorThrows(systemError)
  THEN [threw |-> TRUE, result |-> JUndef, path |-> "rethrow", cache |-> cache]
  ELSE Return("catch",
              Result(Or(options.fallbackMessage, DEFAULT_FALLBACK_MESSAGES.generic), FALSE,
                     IF Truthy(options.includeOriginalError) THEN error ELSE JUndef,
                     Or(options.chain, JStr(ETHEREUM)), TRUE, TRUE),
              cache)

\* lines 367-639: the message is extracted by the adapters registered
attempted(error, options, extraction) ==
  IF extraction.threw
  THEN caught(error, options, extraction.thrown)
  ELSE extracted(error, options, Default(options.chain, JStr(ETHEREUM)),
                 IF Truthy(options.includeOriginalError) THEN error ELSE JUndef,
                 extraction.message)

\* translateError(error, options) with the adapters registered
translateErrorOutcomeWith(registered, error, options) ==
  IF ~Truthy(error)
  THEN [threw |-> TRUE, result |-> JUndef, path |-> "throw", cache |-> cache]
  ELSE attempted(error, options,
                 extractErrorMessageWith(registered, error, options.ecosystem))

\* what last and prev record of a translateError call
completed(error, options, out, same) ==
  /\ calls' = calls + 1
  /\ cache' = out.cache
  /\ last' = [op |-> "translateError", error |-> error, options |-> options,
              threw |-> out.threw, result |-> out.result, path |-> out.path,
              same |-> same,
              before |-> IF same THEN prev
                         ELSE [call |-> <<>>, muts |-> <<>>, more |-> FALSE]]
  /\ prev' = [call |-> <<[error |-> error, options |-> options, threw |-> out.threw,
                         result |-> out.result, path |-> out.path]>>,
              muts |-> <<>>, more |-> FALSE]
  /\ UNCHANGED <<loadedLanguages, adapterRegistry, chains, clock, i18n>>

\* a translateError(error, options) call
translateError(error, options) ==
  completed(error, options, translateErrorOutcome(error, options),
            /\ prev.call # <<>>
            /\ prev.call[1].error = error
            /\ prev.call[1].options = options)

\* a translateError(error, options) call, the adapters being those registered
translateErrorWithAdapters(error, options) ==
  completed(error, options, translateErrorOutcomeWith(adapterRegistry, error, options),
            /\ prev.call # <<>>
            /\ prev.call[1].error = error
            /\ prev.call[1].options = options)

\* a translateError(error, options) call; last keeps the Map of the cache
\* before the call
translateErrorCaching(error, options) ==
  /\ calls' = calls + 1
  /\ cache' = translateErrorOutcome(error, options).cache
  /\ last' = [op |-> "translateError", error |-> error, options |-> options,
              threw |-> translateErrorOutcome(error, options).threw,
              result |-> translateErrorOutcome(error, options).result,
              path |-> translateErrorOutcome(error, options).path,
              before |-> cache]
  /\ UNCHANGED <<loadedLanguages, adapterRegistry, chains, clock, i18n, prev>>

\* JSON.stringify of the dictionaries given as locales
JSONdictionary(translations) ==
  IF translations = LocaleNetwork
  THEN T("{\"errors\":{\"network\":\"locale: network\"}}")
  ELSE T("{\"errors\":{\"network\":\" \",\"wallet\":\"\"}}")

\* JSON.stringify(options) of options that have customLocales as their last
\* property
withCustomLocales(json, customLocales) ==
  IF customLocales = JUndef THEN json
  ELSE SubSeq(json, 1, Len(json) - 1)
         \o (IF Len(json) > 2 THEN <<",">> ELSE <<>>)
         \o <<"\"", "customLocales", "\"", ":", "{">>
         \o JoinComma([i \in 1..Len(customLocales.e) |->
                <<"\"">> \o customLocales.e[i].k \o <<"\"", ":">>
                  \o JSONdictionary(customLocales.e[i].v)])
         \o <<"}", "}">>

\* lines 403-410: Object.entries(customLocales).forEach(registerLocale)
RECURSIVE registerEntries(_, _)
registerEntries(state, entries) ==
  IF entries = <<>> THEN state
  ELSE registerEntries(registerLocale(state, Head(entries).k, Head(entries).v),
                       Tail(entries))

\* lines 403-410: if (customLocales)
registerCustomLocales(state, customLocales) ==
  IF Truthy(customLocales) THEN registerEntries(state, customLocales.e) ELSE state

\* a loadErrorMappings that sorts the array the registry returned
registryAfterSortInPlace(map, chain) ==
  [i \in 1..Len(map) |->
     IF map[i].key = chain
     THEN [key |-> chain,
           value |-> [map[i].value EXCEPT
                        !.errorMappings = JArr(sortByPriority(map[i].value.errorMappings.a))]]
     ELSE map[i]]

\* the Map of the registry after loadErrorMappings(chain): the chain's
\* mappings are pushed into a new array, allMappings, and that one is sorted
registryAfterLoad(map, chain) == map

\* a translateError(error, options) call whose options have customLocales as
\* well: a call served from the cache returns before the locales are
\* registered, the mappings are loaded unless a custom fallback answers, and
\* the lookup of the type's translation sees the locales registered
translateErrorWithLocales(error, options, customLocales) ==
  \E errorMessage \in {MessageOf[<<error, options.ecosystem>>]},
     chain \in {Default(options.chain, JStr(ETHEREUM))} :
    \E cacheKey \in {errorMessage \o <<"_">>
                        \o withCustomLocales(StringOf[options], customLocales)},
       early \in {earlyFallback(getCustomFallbacks(chain),
                                earlyFallbackName(TypeOf[errorMessage]))},
       targetLanguage \in {Or(options.language, JStr(i18n.currentLanguage))} :
      \E cached \in {cacheGet(cache, cacheKey)}, answered \in {has(chain) /\ Truthy(early)} :
        /\ Truthy(error)
        /\ calls' = calls + 1
        /\ i18n' = IF cached.value # JNull THEN i18n
                   ELSE registerCustomLocales(i18n, customLocales)
        /\ chains' = IF cached.value # JNull \/ answered THEN chains
                     ELSE registryAfterLoad(chains, chain)
        /\ UNCHANGED <<loadedLanguages, adapterRegistry, clock, prev>>
        /\ \E translation \in {translateOf(registerCustomLocales(i18n, customLocales),
                                            translationKey(TypeOf[errorMessage]),
                                            targetLanguage)} :
           \E out \in {IF cached.value # JNull
                       THEN Return("cache", cached.value, cached.cache)
                       ELSE missedWith(error, options, chain,
                                       IF Truthy(options.includeOriginalError)
                                       THEN error ELSE JUndef,
                                       errorMessage, cacheKey, cached.cache,
                                       TypeOf[errorMessage], early, targetLanguage,
                                       translation)} :
             /\ cache' = out.cache
             /\ last' = [op |-> "translateError", error |-> error, options |-> options,
                         customLocales |-> customLocales, threw |-> FALSE,
                         result |-> out.result, path |-> out.path,
                         before |-> [chains |-> chains, i18n |-> i18n,
                                     adapterRegistry |-> adapterRegistry]]

\* time passes
Tick ==
  /\ clock < MaxTime
  /\ clock' = clock + 1
  /\ UNCHANGED <<loadedLanguages, adapterRegistry, chains, cache, i18n, calls, last, prev>>

----------------------------------------------------------------------------
(* Operations of the registry API.  last is the most recent call and its    *)
(* outcome; prev is the most recent translateError call and the registry    *)
(* changes made since, kept for the properties that relate two calls.       *)

\* what prev records of a registry call that changed the Map
NoteMutation(op, chainId, config) ==
  [call |-> prev.call,
   muts |-> IF Len(prev.muts) < MaxMuts
            THEN Append(prev.muts, [op |-> op, chainId |-> chainId, config |-> config])
            ELSE prev.muts,
   more |-> prev.more \/ Len(prev.muts) >= MaxMuts]

\* registerCustomChain(config)
registerCustomChain(config) ==
  /\ chains' = register(config)
  /\ last' = [op |-> "registerCustomChain", config |-> config,
              threw |-> registerThrows(config) # NoThrow,
              error |-> registerThrows(config), before |-> chains]
  /\ prev' = IF registerThrows(config) # NoThrow THEN prev
             ELSE NoteMutation("registerCustomChain", config.chainId, config)
  /\ UNCHANGED <<loadedLanguages, adapterRegistry, cache, clock, i18n, calls>>

\* unregisterCustomChain(chainId): returns whether the chain was registered
unregisterCustomChain(chainId) ==
  /\ chains' = unregister(chainId)
  /\ last' = [op |-> "unregisterCustomChain", chainId |-> chainId,
              threw |-> FALSE, result |-> has(chainId), before |-> chains]
  /\ prev' = IF has(chainId)
             THEN NoteMutation("unregisterCustomChain", chainId, get(chainId))
             ELSE prev
  /\ UNCHANGED <<loadedLanguages, adapterRegistry, cache, clock, i18n, calls>>

\* clearCustomChains()
clearCustomChains ==
  /\ chains' = clear
  /\ last' = [op |-> "clearCustomChains", threw |-> FALSE, before |-> chains]
  /\ prev' = IF chains # <<>>
             THEN NoteMutation("clearCustomChains", JUndef, JUndef)
             ELSE prev
  /\ UNCHANGED <<loadedLanguages, adapterRegistry, cache, clock, i18n, calls>>

\* getAvailableChains()
callGetAvailableChains ==
  /\ last' = [op |-> "getAvailableChains", threw |-> FALSE, result |-> getAvailableChains]
  /\ UNCHANGED <<loadedLanguages, adapterRegistry, chains, cache, clock, i18n, calls, prev>>

\* getChainStats()
callGetChainStats ==
  /\ last' = [op |-> "getChainStats", threw |-> FALSE, result |-> getChainStats]
  /\ UNCHANGED <<loadedLanguages, adapterRegistry, chains, cache, clock, i18n, calls, prev>>

----------------------------------------------------------------------------
(* Operations of the i18n API *)

\* registerLocale(language, translations)
callRegisterLocale(language, translations) ==
  /\ i18n' = registerLocale(i18n, language, translations)
  /\ last' = [op |-> "registerLocale", language |-> language, threw |-> FALSE,
              before |-> i18n]
  /\ UNCHANGED <<loadedLanguages, adapterRegistry, chains, cache, clock, calls, prev>>

\* i18nManager.addOverrides(language, overrides)
callAddOverrides(language, overrides) ==
  /\ i18n' = addOverrides(i18n, language, overrides)
  /\ last' = [op |-> "addOverrides", language |-> language, threw |-> FALSE,
              before |-> i18n]
  /\ UNCHANGED <<loadedLanguages, adapterRegistry, chains, cache, clock, calls, prev>>

\* i18nManager.removeOverrides(language, keys)
callRemoveOverrides(language, keys) ==
  /\ i18n' = removeOverrides(i18n, language, keys)
  /\ last' = [op |-> "removeOverrides", language |-> language, threw |-> FALSE,
              before |-> i18n]
  /\ UNCHANGED <<loadedLanguages, adapterRegistry, chains, cache, clock, calls, prev>>

\* setCurrentLanguage(language)
callSetCurrentLanguage(language) ==
  /\ i18n' = setCurrentLanguage(i18n, language)
  /\ last' = [op |-> "setCurrentLanguage", language |-> language, threw |-> FALSE,
              before |-> i18n]
  /\ UNCHANGED <<loadedLanguages, adapterRegistry, chains, cache, clock, calls, prev>>

\* i18nManager.translate(key, language)
callTranslate(key, language) ==
  /\ last' = [op |-> "translate", key |-> key, language |-> language, threw |-> FALSE,
              result |-> translate(key, language)]
  /\ UNCHANGED <<loadedLanguages, adapterRegistry, chains, cache, clock, i18n, calls, prev>>

\* i18nManager.registerLocales(locales)
callRegisterLocales(locales) ==
  /\ i18n' = registerLocales(i18n, locales)
  /\ last' = [op |-> "registerLocales", threw |-> FALSE, before |-> i18n]
  /\ UNCHANGED <<loadedLanguages, adapterRegistry, chains, cache, clock, calls, prev>>

\* i18nManager.clear()
callClear ==
  /\ i18n' = i18nClear(i18n)
  /\ last' = [op |-> "clear", threw |-> FALSE, before |-> i18n]
  /\ UNCHANGED <<loadedLanguages, adapterRegistry, chains, cache, clock, calls, prev>>

----------------------------------------------------------------------------
(* Operations of the language bundle manager *)

\* languageBundleManager.loadLanguage(language)
callLoadLanguage(language) ==
  /\ loadedLanguages' = loadLanguage([loaded |-> loadedLanguages, i18n |-> i18n], language).loaded
  /\ i18n' = loadLanguage([loaded |-> loadedLanguages, i18n |-> i18n], language).i18n
  /\ last' = [op |-> "loadLanguage", languages |-> {language}, threw |-> FALSE,
              before |-> i18n]
  /\ UNCHANGED <<adapterRegistry, chains, cache, clock, calls, prev>>

\* languageBundleManager.unloadLanguage(language)
callUnloadLanguage(language) ==
  /\ loadedLanguages' = unloadLanguage(loadedLanguages, language)
  /\ last' = [op |-> "unloadLanguage", languages |-> {language}, threw |-> FALSE,
              before |-> i18n]
  /\ UNCHANGED <<adapterRegistry, chains, cache, clock, i18n, calls, prev>>

\* configureLanguageSelection({ targetLanguages, autoSuggest: false })
callConfigureLanguageSelection(targetLanguages) ==
  /\ loadedLanguages' =
       configureLanguageSelection([loaded |-> loadedLanguages, i18n |-> i18n],
                                  targetLanguages).loaded
  /\ i18n' =
       configureLanguageSelection([loaded |-> loadedLanguages, i18n |-> i18n],
                                  targetLanguages).i18n
  /\ last' = [op |-> "configureLanguageSelection",
              languages |-> {targetLanguages[i] : i \in 1..Len(targetLanguages)},
              threw |-> FALSE, before |-> i18n]
  /\ UNCHANGED <<adapterRegistry, chains, cache, clock, calls, prev>>

----------------------------------------------------------------------------
(* Operations of the adapter registry.  The translateError calls are made   *)
(* in specifications that register no adapter.                              *)

\* adapterRegistry.registerAdapter(ecosystem, adapter)
callRegisterAdapter(ecosystem, adapter) ==
  /\ adapterRegistry' = registerAdapter(adapterRegistry, ecosystem, adapter)
  /\ last' = [op |-> "registerAdapter", ecosystem |-> ecosystem, threw |-> FALSE]
  /\ UNCHANGED <<loadedLanguages, chains, cache, clock, i18n, calls, prev>>

\* adapterRegistry.unregisterAdapter(ecosystem): returns whether there was one
callUnregisterAdapter(ecosystem) ==
  /\ adapterRegistry' = unregisterAdapter(adapterRegistry, ecosystem)
  /\ last' = [op |-> "unregisterAdapter", ecosystem |-> ecosystem, threw |-> FALSE,
              result |-> MapGet(adapterRegistry, ecosystem) # JUndef]
  /\ UNCHANGED <<loadedLanguages, chains, cache, clock, i18n, calls, prev>>

\* adapter.extractErrorMessage(error)
callExtractErrorMessage(adapter, error) ==
  /\ last' = [op |-> "extractErrorMessage", adapter |-> adapter, error |-> error,
              threw |-> FALSE, result |-> JStr(adapterExtractErrorMessage(adapter, error))]
  /\ UNCHANGED <<loadedLanguages, adapterRegistry, chains, cache, clock, i18n, calls, prev>>

\* adapterRegistry.detectAdapter(error)
callDetectAdapter(error) ==
  /\ last' = [op |-> "detectAdapter", error |-> error, threw |-> FALSE,
              result |-> firstMatching(MapValues(adapterRegistry), error)]
  /\ UNCHANGED <<loadedLanguages, adapterRegistry, chains, cache, clock, i18n, calls, prev>>

\* loadErrorMappings(chain)
callLoadErrorMappings(chain) ==
  /\ last' = [op |-> "loadErrorMappings", chain |-> chain, threw |-> FALSE,
              result |-> loadErrorMappings(chain)]
  /\ UNCHANGED <<loadedLanguages, adapterRegistry, chains, cache, clock, i18n, calls, prev>>

\* findBestMatch(errorMessage, mappings)
callFindBestMatch(errorMessage, mappings) ==
  /\ last' = [op |-> "findBestMatch", errorMessage |-> errorMessage,
              mappings |-> mappings, threw |-> FALSE,
              result |-> findBestMatch(errorMessage, mappings)]
  /\ UNCHANGED <<loadedLanguages, adapterRegistry, chains, cache, clock, i18n, calls, prev>>

\* detectErrorType(errorMessage)
callDetectErrorType(errorMessage) ==
  /\ last' = [op |-> "detectErrorType", errorMessage |-> errorMessage,
              threw |-> FALSE, result |-> detectErrorType(errorMessage)]
  /\ UNCHANGED <<loadedLanguages, adapterRegistry, chains, cache, clock, i18n, calls, prev>>

----------------------------------------------------------------------------
(* Specifications *)

\* the manager as constructed, then loadAllTranslations()
Init ==
  /\ chains = <<>>
  /\ cache = <<>>
  /\ clock = 0
  /\ adapterRegistry = initializeDefaultAdapters
  /\ loadedLanguages = <<T("en")>>
  /\ i18n = loadAllTranslations(
              [currentLanguage |-> T("en"), supportedLanguages |-> <<T("en")>>,
               developerLocales |-> <<>>, globalOverrides |-> <<>>],
              TRANSLATION_REGISTRY)
  /\ calls = 0
  /\ last = [op |-> "init", threw |-> FALSE]
  /\ prev = [call |-> <<>>, muts |-> <<>>, more |-> FALSE]

\* the registry API, called with valid and invalid configurations
NextRegistry ==
  \/ \E config \in ValidConfigs \cup {ConfigSecond} \cup InvalidConfigs :
        registerCustomChain(config)
  \/ \E chainId \in ChainIds : unregisterCustomChain(chainId)
  \/ clearCustomChains

SpecRegistry == Init /\ [][NextRegistry]_vars

\* a translateError call of every kind, after changes of the registry
Next ==
  \/ \E config \in ValidConfigs : calls < MaxCallsWide /\ registerCustomChain(config)
  \/ calls < MaxCallsWide /\ unregisterCustomChain(JStr(T("c1")))
  \/ \E error \in AllErrors, options \in AllOptions :
        calls < MaxCallsWide /\ translateError(error, options)

Spec == Init /\ [][Next]_vars

\* a few translateError calls repeated while the registry changes and time passes
NextCache ==
  \/ \E config \in ValidConfigs : registerCustomChain(config)
  \/ unregisterCustomChain(JStr(T("c1")))
  \/ \E error \in FewErrors, options \in FewOptions :
        calls < MaxCalls /\ translateError(error, options)
  \/ Tick

SpecCache == Init /\ [][NextCache]_vars

\* translateError calls with the caller's mappings, repeated while the
\* registry changes
NextOverride ==
  \/ \E config \in ValidConfigs : registerCustomChain(config)
  \/ unregisterCustomChain(JStr(T("c1")))
  \/ \E error \in OverrideErrors, options \in OverrideOptions :
        calls < MaxCallsOverride /\ translateError(error, options)

SpecOverride == Init /\ [][NextOverride]_vars

\* translateError calls that ask for the original error, or do not, for the
\* same message in two errors
NextOriginal ==
  \/ \E config \in ValidConfigs : registerCustomChain(config)
  \/ unregisterCustomChain(JStr(T("c1")))
  \/ \E error \in OriginalErrors, options \in OriginalOptions :
        calls < MaxCallsOriginal /\ translateError(error, options)

SpecOriginal == Init /\ [][NextOriginal]_vars

\* the adapter registry: adapters are registered and unregistered, and the
\* adapter of an error is detected
NextAdapters ==
  \/ \E registration \in AdapterRegistrations :
        callRegisterAdapter(registration[1], registration[2])
  \/ \E ecosystem \in AdapterEcosystems : callUnregisterAdapter(ecosystem)
  \/ \E error \in DetectErrors : callDetectAdapter(error)

SpecAdapters == Init /\ [][NextAdapters]_vars

\* the mappings of a chain are loaded after changes of the registry
NextLoad ==
  \/ \E config \in ValidConfigs \cup {ConfigSecond, ConfigEthereum} :
        registerCustomChain(config)
  \/ \E chainId \in ChainIds \cup {JStr(T("ethereum"))} : unregisterCustomChain(chainId)
  \/ \E chain \in LoadChains : callLoadErrorMappings(chain)

SpecLoad == Init /\ [][NextLoad]_vars

\* a message is looked up in a list of mappings
NextMatch ==
  \E errorMessage \in MatchMessages, mappings \in MatchLists :
     callFindBestMatch(errorMessage, mappings)

SpecMatch == Init /\ [][NextMatch]_vars

\* the type of a message is detected
NextDetect == \E errorMessage \in DetectMessages : callDetectErrorType(errorMessage)

SpecDetect == Init /\ [][NextDetect]_vars

\* translateError is called while an adapter that throws is registered for
\* 'near', after it was unregistered and after NearAdapter was put back
NextThrow ==
  \/ \E adapter \in ThrowingAdapters \cup {NearAdapter} :
        callRegisterAdapter("near", adapter)
  \/ callUnregisterAdapter("near")
  \/ \E error \in FewErrors, options \in ThrowOptions :
        calls < MaxCallsThrow /\ translateErrorWithAdapters(error, options)

SpecThrow == Init /\ [][NextThrow]_vars

\* calls that are cached fill the cache while time passes
NextEvict ==
  \/ \E error \in EvictErrors, options \in FewOptions :
        calls < MaxCallsEvict /\ translateErrorCaching(error, options)
  \/ Tick

SpecEvict == Init /\ [][NextEvict]_vars

\* languages are registered by the developer and loaded by the bundle
\* manager
NextBundle ==
  \/ \E language \in BundleLanguages, translations \in LocaleDicts :
        callRegisterLocale(language, translations)
  \/ \E language \in BundleLanguages : callLoadLanguage(language)
  \/ \E language \in BundleLanguages \cup {T("en")} : callUnloadLanguage(language)
  \/ \E targetLanguages \in TargetLanguages :
        callConfigureLanguageSelection(targetLanguages)
  \/ \E key \in TranslationKeys, language \in BundleLanguages :
        callTranslate(key, JStr(language))

SpecBundle == Init /\ [][NextBundle]_vars

\* translateError is called with and without customLocales for chains that
\* are registered
NextFrame ==
  \/ \E config \in ValidConfigs : registerCustomChain(config)
  \/ callSetCurrentLanguage(T("es"))
  \/ \E error \in FewErrors, options \in FewOptions, customLocales \in CustomLocales :
        calls < MaxCallsFrame /\ translateErrorWithLocales(error, options, customLocales)

SpecFrame == Init /\ [][NextFrame]_vars

\* translateError is called without a language while the current language
\* changes
NextLanguage ==
  \/ \E language \in Languages : callSetCurrentLanguage(language)
  \/ \E error \in EvictErrors \cup FewErrors, options \in FewOptions :
        calls < MaxCallsLanguage /\ translateError(error, options)

SpecLanguage == Init /\ [][NextLanguage]_vars

\* the chains are listed and counted after changes of the registry
NextChains ==
  \/ \E config \in {ConfigPlain, ConfigSecond, ConfigEthereum} :
        registerCustomChain(config)
  \/ \E chainId \in ChainIds \cup {JStr(T("ethereum"))} : unregisterCustomChain(chainId)
  \/ callGetAvailableChains
  \/ callGetChainStats

SpecChains == Init /\ [][NextChains]_vars

\* translateError is called on 'c1' while its mapping for 'network error'
\* has the priority of the built-in one, or none
NextPriority ==
  \/ \E config \in {ConfigSame, ConfigLower} : registerCustomChain(config)
  \/ unregisterCustomChain(JStr(T("c1")))
  \/ \E error \in EvictErrors \cup FewErrors, options \in FewOptions :
        calls < MaxCallsPriority /\ translateError(error, options)

SpecPriority == Init /\ [][NextPriority]_vars

\* every operation of the i18n manager that changes it
NextSupported ==
  \/ \E translations \in LocaleDicts : callRegisterLocale(T("fr"), translations)
  \/ \E locales \in LocaleRecords : callRegisterLocales(locales)
  \/ \E language \in {T("es"), T("it")} : callAddOverrides(language, OverridesNetwork)
  \/ \E language \in {T("es"), T("it")} : callRemoveOverrides(language, {K_network})
  \/ \E language \in Languages \cup {T("de"), T("it")} : callSetCurrentLanguage(language)
  \/ callClear

SpecSupported == Init /\ [][NextSupported]_vars

\* every adapter extracts the message of every input
NextExtract ==
  \E adapter \in {adapters[i] : i \in 1..Len(adapters)} \cup {EVMAdapter},
     error \in ExtractErrors :
     callExtractErrorMessage(adapter, error)

SpecExtract == Init /\ [][NextExtract]_vars

\* the i18n API: dictionaries and overrides are registered, the language is
\* set and keys are translated
NextI18n ==
  \/ \E language \in {T("es"), T("fr")}, translations \in LocaleDicts :
        callRegisterLocale(language, translations)
  \/ \E overrides \in OverrideDicts : callAddOverrides(T("es"), overrides)
  \/ callRemoveOverrides(T("es"), {K_network})
  \/ \E language \in Languages : callSetCurrentLanguage(language)
  \/ \E key \in TranslationKeys, language \in {JUndef} \cup {JStr(l) : l \in Languages} :
        callTranslate(key, language)

SpecI18n == Init /\ [][NextI18n]_vars

----------------------------------------------------------------------------
(* Properties of the registry API *)

\* C9: a registerCustomChain call that throws, for a chainId already
\* registered or for an invalid config, leaves the registry exactly as it
\* was: the same chainIds in the same order, each with the config it had.
ThrowingRegisterLeavesRegistry ==
  (last.op = "registerCustomChain" /\ last.threw) => chains = last.before

\* a second registration of 'c1', with another config, was rejected and the
\* first config is still the one getCustomChain returns
DuplicateRejected ==
  /\ last.op = "registerCustomChain"
  /\ last.threw
  /\ last.error = "Chain is already registered"
  /\ last.config = ConfigFallbacks
  /\ get(JStr(T("c1"))) = ConfigPlain

\* v is a non-empty string
NonEmptyString(v) == v.t = "string" /\ v.s # <<>>

\* the configs C10 says are rejected, in a registry that holds registry
Rejected(config, registry) ==
  \/ \E i \in 1..Len(registry) : registry[i].key = config.chainId
  \/ ~NonEmptyString(config.chainId)
  \/ ~NonEmptyString(config.name)
  \/ config.errorMappings.t # "array"
  \/ /\ config.errorMappings.t = "array"
     /\ \E i \in 1..Len(config.errorMappings.a) :
           \/ ~NonEmptyString(config.errorMappings.a[i].pattern)
           \/ ~NonEmptyString(config.errorMappings.a[i].message)

\* C10: registerCustomChain(config) throws if and only if config.chainId is
\* already registered, chainId or name is not a non-empty string,
\* errorMappings is not an array, or some mapping's pattern or message is not
\* a non-empty string; otherwise it completes and hasCustomChain(chainId)
\* is true afterwards.
RegisterThrowsExactlyWhenRejected ==
  last.op = "registerCustomChain" =>
    /\ last.threw <=> Rejected(last.config, last.before)
    /\ ~last.threw => has(last.config.chainId)

\* a config whose only fault is a mapping without a message was rejected
\* while another chain was registered
MessagelessMappingRejected ==
  /\ last.op = "registerCustomChain"
  /\ last.threw
  /\ last.error = "errorMappings[i].message must be a non-empty string"
  /\ has(JStr(T("c1")))
  /\ ~has(last.config.chainId)

\* the chainIds the registry API is called with
CalledIds == ChainIds \cup {config.chainId : config \in InvalidConfigs}

\* what a call of the registry API does to the lookups of id
LookupsFollow(id) ==
  IF last'.op = "registerCustomChain" /\ ~last'.threw /\ id = last'.config.chainId
  THEN has(id)' /\ get(id)' = last'.config
  ELSE IF last'.op = "clearCustomChains"
          \/ (last'.op = "unregisterCustomChain" /\ id = last'.chainId)
  THEN ~has(id)' /\ get(id)' = JUndef
  ELSE has(id)' = has(id) /\ get(id)' = get(id)

\* C11: hasCustomChain(id) is true and getCustomChain(id) is the registered
\* config exactly for the ids whose last successful registration was not
\* followed by an unregister of that id or by a clear, otherwise false and
\* undefined; getAllCustomChains returns exactly those configs; and
\* unregisterCustomChain(id) returns true iff id was registered.  Stated
\* step by step: a successful register makes its id registered with its
\* config, an unregister of id or a clear makes it unregistered, and every
\* other call leaves the lookups of id as they were.
LookupsFollowTheCalls ==
  [][/\ \A id \in CalledIds : LookupsFollow(id)
     /\ {getAll'[i] : i \in 1..Len(getAll')} = {get(id)' : id \in {c \in CalledIds : has(c)'}}
     /\ Len(getAll') = Cardinality({c \in CalledIds : has(c)'})
     /\ last'.op = "unregisterCustomChain" => (last'.result <=> has(last'.chainId))]_vars

\* 'c1' was unregistered while 'c2' was registered: the call returned true,
\* 'c1' is gone and 'c2' still has its config
UnregisteredBesideAnother ==
  /\ last.op = "unregisterCustomChain"
  /\ last.chainId = JStr(T("c1"))
  /\ last.result
  /\ ~has(JStr(T("c1")))
  /\ get(JStr(T("c2"))) = ConfigSecond
  /\ getAll = <<ConfigSecond>>

----------------------------------------------------------------------------
(* Properties of the i18n API *)

\* the language a translate call is made for
lastLanguage == IF Truthy(last.language) THEN last.language.s ELSE i18n.currentLanguage

\* the override registered for the language under the exact key, or undefined
registeredOverride(key, language) ==
  Find(Or(MapGet(i18n.globalOverrides, language), JDict(<<>>)).e,
       LAMBDA entry : entry.k = key, [v |-> JUndef]).v

\* the first non-empty value among the override, the developer's
\* translation and the English one, or the key
firstNonEmpty(key, override, developerTranslation, englishTranslation) ==
  IF NonEmptyString(override) THEN override
  ELSE IF NonEmptyString(developerTranslation) THEN developerTranslation
  ELSE IF NonEmptyString(englishTranslation) THEN englishTranslation
  ELSE JStr(key)

\* C12: translate(key, lang) returns the first non-empty value found in the
\* order: the override registered for lang under the exact key, the
\* developer's dictionary for lang (dot path), the English dictionary (dot
\* path), the key itself; an absent or empty value falls through to the next
\* level; the call returns a string and never throws, for any key and any
\* language.
TranslateReturnsFirstNonEmpty ==
  last.op = "translate" =>
    /\ ~last.threw
    /\ last.result.t = "string"
    /\ last.result = firstNonEmpty(last.key,
                                   registeredOverride(last.key, lastLanguage),
                                   getDeveloperTranslation(last.key, lastLanguage),
                                   getNestedValue(englishTranslations, last.key))

\* the languages that were supported when the most recent call was made
supportedBefore ==
  {last.before.supportedLanguages[i] : i \in 1..Len(last.before.supportedLanguages)}

\* C13: setCurrentLanguage(lang) with a lang that is not in the supported
\* set does not throw and leaves the current language and all other i18n
\* state unchanged; with a lang in the supported set, getCurrentLanguage()
\* returns lang afterwards.
UnsupportedLanguageIgnored ==
  last.op = "setCurrentLanguage" =>
    /\ ~last.threw
    /\ last.language \notin supportedBefore => i18n = last.before
    /\ last.language \in supportedBefore => i18n.currentLanguage = last.language

\* setCurrentLanguage('fr') was called while 'es' was the current language
\* and 'fr' was not registered: the language is still 'es'
UnregisteredFrenchIgnored ==
  /\ last.op = "setCurrentLanguage"
  /\ last.language = T("fr")
  /\ T("fr") \notin supportedBefore
  /\ last.before.currentLanguage = T("es")
  /\ i18n.currentLanguage = T("es")

----------------------------------------------------------------------------
(* Properties of translateError.  They read the most recent call from last; *)
(* the registry a translateError call saw is the registry of the state.     *)

\* the most recent call was a translateError that returned
Returns == last.op = "translateError" /\ ~last.threw

\* the message extracted from the error of the most recent call
lastMessage == MessageOf[<<last.error, last.options.ecosystem>>]

\* the chain of the most recent call
lastChain == Default(last.options.chain, JStr(ETHEREUM))

\* the customMappings of the most recent call, as entries
lastCallerMappings == Default(last.options.customMappings, JDict(<<>>)).e

\* the entries of customMappings whose pattern matches the message
CallerHits ==
  {i \in 1..Len(lastCallerMappings) :
     toLowerCase(lastCallerMappings[i].k) = toLowerCase(lastMessage)}

\* the chain's list: its custom errorMappings and the built-in ones, unsorted
lastAssembled == getErrorMappings(lastChain) \o builtInMappings(lastChain)

\* the mappings of the chain's list that match the message
ChainHits ==
  {i \in 1..Len(lastAssembled) : matchesPattern(lastMessage, lastAssembled[i])}

\* no mapping, of the chain or of the caller, matches the message
NoMappingMatches == CallerHits = {} /\ ChainHits = {}

\* the chain is a registered custom chain whose customFallbacks has a
\* non-empty entry for the detected type network, wallet or contract
EarlyFallbackApplies ==
  /\ has(lastChain)
  /\ Truthy(earlyFallback(getCustomFallbacks(lastChain),
                          earlyFallbackName(TypeOf[lastMessage])))

\* C1: translateError returns a result and never throws, for a string (the
\* empty string included), an Error or a plain object and valid options.
TranslateErrorNeverThrows == last.op = "translateError" => ~last.threw

\* C2: translated is true if and only if the message was produced by a
\* mapping that matched, now or when the result was cached; every fallback,
\* the i18n lookup of errors.<type> included, has translated = false.
TranslatedIffMappingMatched ==
  Returns => (last.result.translated <=> last.path \in {"match", "cache"})

lastPriority(i) == Nullish(lastAssembled[i].priority, JNum(0)).n

\* C4: when two mappings of the chain's list both match the message, the
\* message returned is that of the one with the higher priority (none
\* counts as 0), in whatever order they are listed.  Stated for calls
\* without customMappings, in the default language, that no custom
\* fallback answers first.
HighestPriorityReturned ==
  (Returns /\ last.options.customMappings = JUndef /\ last.options.language = JUndef
     /\ ~EarlyFallbackApplies /\ Cardinality(ChainHits) >= 2) =>
    \E i \in ChainHits :
       /\ \A j \in ChainHits : lastPriority(j) <= lastPriority(i)
       /\ last.result.message = lastAssembled[i].message

\* C5: when no mapping matches and options.fallbackMessage is a non-empty
\* string, the message is exactly that string, on every chain and for every
\* detected type.
ExplicitFallbackReturned ==
  (Returns /\ NoMappingMatches /\ Truthy(last.options.fallbackMessage)) =>
    last.result.message = last.options.fallbackMessage

\* the fallback C6 names for the most recent call
lastExpectedFallback ==
  chosenFallback(JUndef, has(lastChain), getCustomFallbacks(lastChain),
                 DEFAULT_FALLBACK_MESSAGES, fallbackName(TypeOf[lastMessage]))

\* C6: when no mapping matches and no fallbackMessage is given, the message
\* is the custom chain's customFallbacks entry for the detected type (generic
\* when the type is none of network, wallet, contract), the built-in default
\* for that type when the entry is absent or the chain is not a registered
\* custom chain, and never empty.  Stated for the default language.
FallbackByTypeReturned ==
  (Returns /\ NoMappingMatches /\ last.options.fallbackMessage = JUndef
     /\ last.options.language = JUndef) =>
    /\ last.result.message = lastExpectedFallback
    /\ last.result.message.s # <<>>

\* C7: after unregisterCustomChain(c.chainId), the translateError call that
\* matched one of c's mappings, made again with the same error and options,
\* no longer uses them: when no built-in mapping matches it returns
\* translated = false.  Stated for messages of no detected type, so that no
\* i18n lookup answers.
UnregisteredMappingsUnused ==
  (Returns /\ last.same /\ ~last.before.more /\ Len(last.before.muts) = 1
     /\ last.before.muts[1].op = "unregisterCustomChain"
     /\ last.before.muts[1].chainId = lastChain
     /\ \E i \in 1..Len(last.before.muts[1].config.errorMappings.a) :
           last.before.call[1].result.message
             = last.before.muts[1].config.errorMappings.a[i].message
     /\ NoMappingMatches /\ TypeOf[lastMessage] = JNull) =>
    ~last.result.translated

\* C8: two consecutive translateError calls with the same arguments and no
\* registry change between them return the same message, translated and
\* chain, also when the second is served from the cache.
RepeatedCallSameResult ==
  (Returns /\ last.same /\ last.before.muts = <<>> /\ ~last.before.more) =>
    /\ last.result.message = last.before.call[1].result.message
    /\ last.result.translated = last.before.call[1].result.translated
    /\ last.result.chain = last.before.call[1].result.chain

\* C14: when options.includeOriginalError is true, result.originalError is
\* the very error value passed to that call; when it is false or absent,
\* result.originalError is undefined; on every return path.
OriginalErrorIsTheCallsError ==
  Returns =>
    last.result.originalError =
      IF last.options.includeOriginalError = JBool(TRUE) THEN last.error ELSE JUndef

----------------------------------------------------------------------------
(* Properties of the adapter registry *)

\* the registered adapters that are not EVM adapters, in the order of the Map
registeredNonEVM ==
  SelectSeq(MapValues(adapterRegistry), LAMBDA adapter : adapter.ecosystem # "evm")

\* C15: detectAdapter(error) returns the first adapter, in insertion order
\* of the registered non-EVM adapters, whose matchesErrorFormat(error) is
\* true; only if none of them matches does it return an EVM adapter, and
\* only if the EVM adapter's matchesErrorFormat(error) is true; otherwise it
\* returns null.
DetectsFirstRegisteredNonEVM ==
  last.op = "detectAdapter" =>
    IF \E i \in 1..Len(registeredNonEVM) : matchesErrorFormat(registeredNonEVM[i], last.error)
    THEN \E i \in 1..Len(registeredNonEVM) :
           /\ last.result = registeredNonEVM[i]
           /\ matchesErrorFormat(registeredNonEVM[i], last.error)
           /\ \A j \in 1..(i - 1) : ~matchesErrorFormat(registeredNonEVM[j], last.error)
    ELSE IF matchesErrorFormat(EVMAdapter, last.error)
    THEN last.result # JNull /\ last.result.ecosystem = "evm"
    ELSE last.result = JNull

----------------------------------------------------------------------------
(* Properties of the adapters *)

\* the fields of the error an adapter reads: those of its own steps and
\* those of the base class
recognizedFields(adapter) ==
  {"message", "error", "reason", "details"}
    \cup {Head(adapter.steps[i].path) : i \in 1..Len(adapter.steps)}
    \cup ({adapter.steps[i].guard : i \in 1..Len(adapter.steps)} \ {""})

\* C16: for every adapter and every input (string, null, undefined, number,
\* boolean, array, object with nested fields) extractErrorMessage returns a
\* string without throwing; a string input is returned unchanged, and an
\* input with none of the recognized fields yields 'Unknown error occurred'.
ExtractionIsTotal ==
  last.op = "extractErrorMessage" =>
    /\ ~last.threw
    /\ last.result.t = "string"
    /\ last.error.t = "string" => last.result = last.error
    /\ (last.error.t # "string"
          /\ \A field \in recognizedFields(last.adapter) : ~HasProp(last.error, field))
        => last.result = JStr(S_Unknown_error_occurred)

\* the Near adapter was given null and answered 'Unknown error occurred'
NearAdapterGivenNull ==
  /\ last.op = "extractErrorMessage"
  /\ last.adapter = NearAdapter
  /\ last.error = JNull
  /\ last.result = JStr(S_Unknown_error_occurred)

\* the first string among message, error.message, reason and data.message
firstOfFour(error) ==
  Find(<<Get(error, "message"), Walk(error, <<"error", "message">>), Get(error, "reason"),
         Walk(error, <<"data", "message">>)>>,
       LAMBDA v : v.t = "string", JStr(S_Unknown_error_occurred))

\* C18: for an object error handled by the default (EVM) adapter, the
\* extracted message is the first string found in the order message,
\* error.message, reason, data.message; 'Unknown error occurred' is returned
\* only when none of these four is a string.
EVMReadsFourFieldsInOrder ==
  (last.op = "extractErrorMessage" /\ last.adapter = EVMAdapter /\ last.error.t = "object")
    => last.result = firstOfFour(last.error)

----------------------------------------------------------------------------
(* Further properties of translateError *)

\* C17: for a registered custom chain whose customFallbacks has a non-empty
\* entry for the detected error type (network, wallet or contract),
\* translateError returns that entry with translated = false, whatever the
\* chain's errorMappings, the built-in mappings and options.customMappings.
EarlyFallbackReturned ==
  (Returns /\ EarlyFallbackApplies) =>
    /\ last.result.message = earlyFallback(getCustomFallbacks(lastChain),
                                           earlyFallbackName(TypeOf[lastMessage]))
    /\ ~last.result.translated

----------------------------------------------------------------------------
(* Properties of loadErrorMappings *)

loadedChain == last.chain

\* the categories of a built-in chain that are enabled and of priority p
enabledOfPriority(chain, p) ==
  SelectSeq(CHAIN_REGISTRY[chain].errorCategories,
            LAMBDA cat : cat.enabled /\ cat.priority = p)

\* the highest priority a category of the chain has
highestCategoryPriority(chain) ==
  LET set == {CHAIN_REGISTRY[chain].errorCategories[i].priority :
                i \in 1..Len(CHAIN_REGISTRY[chain].errorCategories)}
  IN CHOOSE p \in set : \A q \in set : q <= p

\* the enabled categories of a built-in chain, the highest priority first
enabledDescending(chain) ==
  LET top == highestCategoryPriority(chain)
  IN Flatten([k \in 1..(top + 1) |-> enabledOfPriority(chain, top + 1 - k)])

\* the mappings the claim lists, before they are sorted
listedMappings(chain) ==
  (IF has(chain) THEN get(chain).errorMappings.a ELSE <<>>)
    \o (IF chain.s \in SupportedChain
        THEN mappingsOf(ERROR_CATEGORY_MAPPINGS, enabledDescending(chain.s))
        ELSE mappingsOf(ERROR_CATEGORY_MAPPINGS, ERROR_CATEGORY_MAPPINGS))

\* the priority of a mapping, 0 when it has none
priorityOrZero(mapping) == IF mapping.priority = JUndef THEN 0 ELSE mapping.priority.n

\* the mappings of s that have priority p, in their order
ofPriority(s, p) == SelectSeq(s, LAMBDA mapping : priorityOrZero(mapping) = p)

\* sorted is listed in descending priority, equal priorities in listed order
StablySorted(sorted, listed) ==
  /\ Len(sorted) = Len(listed)
  /\ \A i, j \in 1..Len(sorted) :
        i < j => priorityOrZero(sorted[i]) >= priorityOrZero(sorted[j])
  /\ \A i \in 1..Len(listed) :
        ofPriority(sorted, priorityOrZero(listed[i]))
          = ofPriority(listed, priorityOrZero(listed[i]))

\* C19: loadErrorMappings(chain) returns the mappings of the registered custom
\* chain followed by the mappings of the enabled categories of a built-in
\* chain in descending category priority, or of every built-in category for
\* any other chain, sorted by descending priority, a missing priority being
\* 0, and mappings of equal priority keeping their relative order
LoadedMappingsStablySorted ==
  last.op = "loadErrorMappings" =>
    StablySorted(last.result, listedMappings(loadedChain))

\* the customised 'ethereum' is loaded: the mapping without priority moves
\* behind the built-in ones and the one of their priority stays before them
CustomisedEthereumLoaded ==
  /\ last.op = "loadErrorMappings"
  /\ loadedChain = JStr(T("ethereum"))
  /\ has(loadedChain)
  /\ last.result # listedMappings(loadedChain)
  /\ Len(last.result) = 5
  /\ last.result[1] = mEthereumHigh
  /\ last.result[2] = mEthereumSame
  /\ last.result[5] = mEthereumLow

----------------------------------------------------------------------------
(* Properties of findBestMatch *)

\* the lower-cased message is the lower-cased pattern of the mapping
exactlyPattern(errorMessage, mapping) ==
  toLowerCase(errorMessage) = toLowerCase(mapping.pattern.s)

\* the places of the list whose mapping matches the message
matchingPlaces(errorMessage, mappings) ==
  {i \in 1..Len(mappings) : matchesPattern(errorMessage, mappings[i])}

\* C20: a mapping that is not a regular expression matches a message exactly
\* when the lower-cased message equals the lower-cased pattern, a message
\* that only contains the pattern not matching, and findBestMatch returns the
\* first mapping of the list that matches, or null when none does
FirstExactMatchReturned ==
  last.op = "findBestMatch" =>
    LET places == matchingPlaces(last.errorMessage, last.mappings)
    IN /\ \A i \in 1..Len(last.mappings) :
            ~Truthy(last.mappings[i].isRegex) =>
               (i \in places <=> exactlyPattern(last.errorMessage, last.mappings[i]))
       /\ places = {} => last.result = JNull
       /\ places # {} =>
            last.result = last.mappings[CHOOSE i \in places : \A j \in places : i <= j]

\* 'out of gas' contains the pattern 'gas' of the first mapping, which is
\* passed over, and the regular expression after it is returned
SubstringMappingPassedOver ==
  /\ last.op = "findBestMatch"
  /\ last.errorMessage = S_out_of_gas
  /\ last.mappings = <<mGasPlain, mGasRegex>>
  /\ includes(toLowerCase(last.errorMessage), toLowerCase(mGasPlain.pattern.s))
  /\ last.result = mGasRegex

\* C21: a mapping marked as a regular expression whose pattern does not
\* compile makes nothing throw and matches exactly when the lower-cased
\* message contains the lower-cased pattern
BrokenRegexMatchesSubstring ==
  last.op = "findBestMatch" =>
    /\ ~last.threw
    /\ \A i \in 1..Len(last.mappings) :
          (Truthy(last.mappings[i].isRegex) /\ ~Balanced(last.mappings[i].pattern.s, 0)) =>
             (i \in matchingPlaces(last.errorMessage, last.mappings)
                <=> includes(toLowerCase(last.errorMessage),
                             toLowerCase(last.mappings[i].pattern.s)))

----------------------------------------------------------------------------
(* Properties of detectErrorType *)

\* the order in which the types are tested
TypeOrder == <<"WALLET", "CONTRACT", "GAS", "TRANSACTION", "NETWORK">>

\* the keywords of a type
keywordsOf(type) ==
  Find(ERROR_TYPE_KEYWORDS, LAMBDA entry : entry.type = type, [keywords |-> <<>>]).keywords

\* a keyword of the type is part of the lower-cased message
keywordOccurs(errorMessage, type) ==
  \E k \in 1..Len(keywordsOf(type)) :
     includes(toLowerCase(errorMessage), keywordsOf(type)[k])

\* the places of TypeOrder whose type has a keyword in the message
typesOccurring(errorMessage) ==
  {i \in 1..Len(TypeOrder) : keywordOccurs(errorMessage, TypeOrder[i])}

\* C22: detectErrorType returns the first of WALLET, CONTRACT, GAS,
\* TRANSACTION, NETWORK one of whose keywords is part of the lower-cased
\* message, and null when no keyword of any type is
EarliestTypeDetected ==
  last.op = "detectErrorType" =>
    LET occurring == typesOccurring(last.errorMessage)
    IN IF occurring = {} THEN last.result = JNull
       ELSE last.result =
              JStr(<<TypeOrder[CHOOSE i \in occurring : \A j \in occurring : i <= j]>>)

\* 'network Wallet' has a keyword of NETWORK before one of WALLET and is a
\* WALLET error
WalletBeforeNetwork ==
  /\ last.op = "detectErrorType"
  /\ keywordOccurs(last.errorMessage, "NETWORK")
  /\ keywordOccurs(last.errorMessage, "WALLET")
  /\ Head(last.errorMessage) = "n"
  /\ last.result = JStr(<<"WALLET">>)

\* C23: when a step of translateError throws, translateError throws nothing
\* and returns options.fallbackMessage, or the generic message without one,
\* with translated false, fallbackUsed true, retryable true and the chain
\* asked for, 'ethereum' without one
ThrowingStepDegrades ==
  (last.op = "translateError" /\ last.path \in {"catch", "rethrow"}) =>
     /\ ~last.threw
     /\ last.result.message =
          (IF last.options.fallbackMessage # JUndef THEN last.options.fallbackMessage
           ELSE DEFAULT_FALLBACK_MESSAGES.generic)
     /\ ~last.result.translated
     /\ last.result.fallbackUsed
     /\ last.result.retryable
     /\ last.result.chain =
          (IF last.options.chain # JUndef THEN last.options.chain ELSE JStr(ETHEREUM))

----------------------------------------------------------------------------
(* Properties of the translation cache *)

\* the keys of the entries of a cache
cacheKeys(c) == {c[i].key : i \in 1..Len(c)}

\* C24: the cache never holds more than maxSize entries, and a new entry put
\* into a full cache takes the place of the oldest one, every other entry
\* staying where it was
CacheEvictsOldestOnly ==
  [][/\ Len(cache') <= maxSize
     /\ (Len(cache) = maxSize /\ cacheKeys(cache') \ cacheKeys(cache) # {}) =>
           /\ Len(cache') = maxSize
           /\ SubSeq(cache', 1, maxSize - 1) = Tail(cache)
           /\ cache'[maxSize].key \notin cacheKeys(cache)]_vars

\* a call found the cache full and was cached: the oldest entry is gone
OldestEntryEvicted ==
  /\ last.op = "translateError"
  /\ last.path = "match"
  /\ Len(last.before) = maxSize
  /\ Len(cache) = maxSize
  /\ Head(last.before).key \notin cacheKeys(cache)
  /\ cache[maxSize].key \notin cacheKeys(last.before)

----------------------------------------------------------------------------
(* Properties of the language bundle manager *)

\* translate(key, language) returns what the developer registered
developerRegistered(key, language) ==
  /\ Truthy(getDeveloperTranslation(key, language))
  /\ translate(key, JStr(language)) = getDeveloperTranslation(key, language)

\* C25: a language loaded through the bundle manager, by loadLanguage or as
\* one of the targetLanguages of configureLanguageSelection, keeps the
\* translations registered for it: a key that translate answered with a
\* value the developer registered is answered with the same value afterwards
LoadingKeepsTranslations ==
  [][last'.op \in {"loadLanguage", "configureLanguageSelection"} =>
       \A language \in last'.languages \cap BundleLanguages, key \in TranslationKeys :
          developerRegistered(key, language) =>
             translate(key, JStr(language))' = translate(key, JStr(language))]_vars

----------------------------------------------------------------------------
(* Properties of translateError and the current language *)

\* what translateError(error, options) computes in the current state when
\* the cache has nothing for the call
computedNow(error, options) ==
  looked(error, options, Default(options.chain, JStr(ETHEREUM)),
         IF Truthy(options.includeOriginalError) THEN error ELSE JUndef,
         MessageOf[<<error, options.ecosystem>>],
         MessageOf[<<error, options.ecosystem>>] \o <<"_">> \o StringOf[options],
         [value |-> JNull, cache |-> cache],
         TypeOf[MessageOf[<<error, options.ecosystem>>]]).result

\* C26: a translateError call without a language option whose message matches
\* a mapping returns the result computed for the current language of the
\* call, never that of an earlier call made under another current language
CurrentLanguageUsed ==
  (/\ last.op = "translateError"
   /\ ~last.threw
   /\ last.options.language = JUndef
   /\ last.path \in {"match", "cache"}) =>
     last.result = computedNow(last.error, last.options)

----------------------------------------------------------------------------
(* Properties of the lists of chains *)

\* the elements of a sequence
elementsOf(s) == {s[i] : i \in 1..Len(s)}

\* C27: after any registerCustomChain and unregisterCustomChain calls, also
\* of a chain whose chainId is that of a built-in chain, getAvailableChains()
\* lists no chain id twice and getChainStats().total is the number of
\* distinct available chain ids
ChainsListedOnce ==
  /\ last.op = "getAvailableChains" =>
       Cardinality(elementsOf(last.result)) = Len(last.result)
  /\ last.op = "getChainStats" =>
       last.result.total = Cardinality(elementsOf(getAvailableChains))

----------------------------------------------------------------------------
(* Properties of translateError on a custom chain *)

\* the mappings of a list that match the message
matching(errorMessage, mappings) ==
  SelectSeq(mappings, LAMBDA mapping : matchesPattern(errorMessage, mapping))

\* the highest priority of the mappings of a list that is not empty
highestPriority(mappings) ==
  CHOOSE p \in {priorityOrZero(mappings[i]) : i \in 1..Len(mappings)} :
     \A i \in 1..Len(mappings) : priorityOrZero(mappings[i]) <= p

\* the first mapping of the list with its highest priority
firstOfHighest(mappings) == Head(ofPriority(mappings, highestPriority(mappings)))

\* the mapping the claim names for the chain's mappings and the built-in
\* ones that match: the chain's on equal priority, the built-in one when the
\* chain's is lower
mappingNamed(custom, builtIn) ==
  IF highestPriority(custom) = highestPriority(builtIn) THEN firstOfHighest(custom)
  ELSE firstOfHighest(builtIn)

\* C28: on a registered custom chain, when one of the chain's mappings and a
\* built-in mapping both match the message, the chain's mapping is returned
\* when their priorities are equal and the built-in one when the chain's
\* priority is lower or missing
CustomMappingWinsTies ==
  (/\ last.op = "translateError"
   /\ ~last.threw
   /\ last.options.chain # JUndef
   /\ has(last.options.chain)) =>
     LET errorMessage == MessageOf[<<last.error, last.options.ecosystem>>]
         custom == matching(errorMessage, getErrorMappings(last.options.chain))
         builtIn == matching(errorMessage, builtInMappings(last.options.chain))
     IN (/\ custom # <<>>
         /\ builtIn # <<>>
         /\ highestPriority(custom) <= highestPriority(builtIn)) =>
           /\ last.result.translated
           /\ last.result.message = mappingNamed(custom, builtIn).message

----------------------------------------------------------------------------
(* Properties of the languages of the i18n manager *)

\* getSupportedLanguages(), as a set
supported == {i18n.supportedLanguages[i] : i \in 1..Len(i18n.supportedLanguages)}

\* C29: after any registerLocale, registerLocales, addOverrides,
\* removeOverrides, setCurrentLanguage and clear calls, the current language
\* is one of the supported languages and 'en' is one of them
CurrentLanguageSupported ==
  /\ i18n.currentLanguage \in supported
  /\ T("en") \in supported

\* clear() was called while German, registered by registerLocales, was the
\* current language: the current language is English again
ClearedWhileGerman ==
  /\ last.op = "clear"
  /\ last.before.currentLanguage = T("de")
  /\ i18n.currentLanguage = T("en")
  /\ supported = {T("en")}


----------------------------------------------------------------------------
(* What translateError leaves alone *)

\* the mappings of a chain stand in the registry out of priority order
unsortedMappings(chainId) == getErrorMappings(chainId) # sortByPriority(getErrorMappings(chainId))

\* C30: a translateError call leaves the custom chain registry (the chains
\* registered, and the content and order of their errorMappings) and the
\* adapter registry as they were, and leaves the state of the i18n manager
\* as it was unless the options had customLocales
TranslateErrorFrame ==
  [][last'.op = "translateError" =>
       /\ chains' = chains
       /\ adapterRegistry' = adapterRegistry
       /\ (i18n' # i18n => last'.customLocales # JUndef)]_vars

\* a call with customLocales for a chain whose mappings are out of order
\* found a match among the mappings loaded and registered a locale
LocalesRegisteredByCall ==
  /\ last.op = "translateError"
  /\ last.path = "match"
  /\ last.customLocales = LocalesFrench
  /\ last.before.i18n # i18n
  /\ unsortedMappings(Default(last.options.chain, JStr(ETHEREUM)))
  /\ last.before.chains = chains

====
